---- MODULE Spec2Model ----
(***************************************************************************)
(* ccs: the interactive filter / selection state machine of the            *)
(* conversation browser (model, initialModel, updateFilter, Update), the   *)
(* delete-confirmation flow layered on it, the transcript parser           *)
(* (parseConversationFile) and the concurrent scan (getConversations).     *)
(*                                                                         *)
(* Strings are sequences of one-character strings, so that substring       *)
(* search and lower-casing are computed rather than assumed.               *)
(***************************************************************************)
EXTENDS Integers, Sequences, FiniteSets, TLC

VARIABLES
    items,           \* model.items: every list item, newest first
    filtered,        \* model.filtered: the items matching the query
    query,           \* model.textInput.Value()
    cursor,          \* model.cursor
    previewScroll,   \* model.previewScroll
    width,           \* model.width
    height,          \* model.height
    listHeight,      \* model.listHeight
    mouseInPreview,  \* model.mouseInPreview
    selected,        \* model.selected: <<>> for nil, <<id>> for &conv
    quitting,        \* model.quitting (tea.Quit was returned)
    confirmDelete,   \* model.confirmDelete
    deleteIndex,     \* model.deleteIndex
    errorMsg,        \* model.errorMsg
    files,           \* transcript files present on disk (by conversation id)
    panicked,        \* the Go runtime stopped the program (index out of range)
    lastEvent,       \* the message the last Update call handled, whether
                     \* confirmDelete was set when it arrived, and for a
                     \* wheel message the row of the pointer
    \* getConversations, one worker per candidate file
    tree,            \* what filepath.Walk visits under the projects directory
    candidates,      \* files: the transcript files the walk collected, in walk order
    workers,         \* the goroutine of each candidate: where it stands, the path
                     \* it was handed, what its parse returned
    sem,             \* len(sem): the semaphore slots taken
    results,         \* the conversations buffered in the results channel
    closed,          \* close(results) has run
    conversations,   \* the slice getConversations collects, sorts and returns
    scanPc,          \* where getConversations itself stands
    \* getConversations on many files: how many workers stand where
    pool,
    \* parseConversationFile
    parseIn,         \* <<>> or <<the file, the cutoff, the size limit>> of a call
    parseOut,        \* <<>> or <<what the call returned>>
    \* extractText
    extractIn,       \* <<>> or <<the message content of a call>>
    extractOut,      \* <<>> or <<the text the call returned>>
    \* View
    view             \* <<>> or <<what the last call of View returned>>

uiVars == <<items, filtered, query, cursor, previewScroll, width, height,
            listHeight, mouseInPreview, selected, quitting, confirmDelete,
            deleteIndex, errorMsg, files, panicked, lastEvent>>
scanVars == <<tree, candidates, workers, sem, results, closed, conversations,
              scanPc>>
parseVars == <<parseIn, parseOut>>
textVars == <<extractIn, extractOut>>

\* everything outside the browser
pipelineVars == <<scanVars, pool, parseVars, textVars, view>>

vars == <<uiVars, pipelineVars>>

\* the scan and the parser at rest, as they are while the browser runs
scanIdle ==
    /\ tree = <<>>
    /\ candidates = <<>>
    /\ workers = <<>>
    /\ sem = 0
    /\ results = <<>>
    /\ closed = FALSE
    /\ conversations = <<>>
    /\ scanPc = "idle"

poolIdle ==
    pool = [unspawned |-> 0, waiting |-> 0, parsing |-> 0, holding |-> 0,
            done |-> 0, queued |-> 0, closed |-> FALSE, pc |-> "idle"]

parseIdle ==
    /\ parseIn = <<>>
    /\ parseOut = <<>>

textIdle ==
    /\ extractIn = <<>>
    /\ extractOut = <<>>

viewIdle == view = <<>>

pipelineIdle == scanIdle /\ poolIdle /\ parseIdle /\ textIdle /\ viewIdle

(***************************************************************************)
(* Bounds of the model.                                                    *)
(***************************************************************************)
MaxItems == 3       \* longest items list explored
MaxQueryLen == 2    \* longest query typed
MaxScroll == 10     \* cap on previewScroll (the code has none)

(***************************************************************************)
(* Text.                                                                   *)
(***************************************************************************)
\* the runes a key press can type into the search box
Runes == {"B", "y", "n"}

Max(a, b) == IF a >= b THEN a ELSE b

Min(a, b) == IF a < b THEN a ELSE b

\* unicode.ToLower on one rune of the alphabet used here
ToLowerRune(c) ==
    CASE c = "B" -> "b"
      [] c = "Y" -> "y"
      [] c = "N" -> "n"
      [] OTHER -> c

\* strings.ToLower
ToLower(s) == [i \in 1..Len(s) |-> ToLowerRune(s[i])]

\* strings.Contains(s, sub): sub occurs in s as a contiguous run
Contains(s, sub) ==
    \E k \in 0..(Len(s) - Len(sub)) :
        \A i \in 1..Len(sub) : s[k + i] = sub[i]

(***************************************************************************)
(* The index the browser is started on.  A listItem is its conversation    *)
(* (named by its session id, which also names its transcript file) and     *)
(* its searchText.                                                         *)
(***************************************************************************)
Corpus ==
    << [conv |-> 1, searchText |-> <<"b", "Y">>],
       [conv |-> 2, searchText |-> <<"y", "n">>],
       [conv |-> 3, searchText |-> <<"B", "n">>] >>

\* the order-preserving sub-lists of Corpus of at most MaxItems items
RECURSIVE Pick(_, _)
Pick(S, i) ==
    IF i > Len(Corpus) THEN <<>>
    ELSE IF i \in S THEN <<Corpus[i]>> \o Pick(S, i + 1)
    ELSE Pick(S, i + 1)

ItemLists ==
    { Pick(S, 1) : S \in { T \in SUBSET (1..Len(Corpus)) : Cardinality(T) <= MaxItems } }

RECURSIVE Strings(_)
Strings(n) ==
    IF n = 0 THEN { <<>> }
    ELSE LET shorter == Strings(n - 1)
         IN  shorter \cup { Append(s, c) : s \in { t \in shorter : Len(t) = n - 1 }, c \in Runes }

Queries == Strings(MaxQueryLen)

ConvIds(its) == { its[i].conv : i \in 1..Len(its) }

(***************************************************************************)
(* updateFilter                                                            *)
(***************************************************************************)
\* faulty variant: a case-sensitive comparison
matchesCaseSensitive(item, q) == Contains(item.searchText, q)

\* faulty variant: the item is kept when its whole text is the query
matchesWholeText(item, q) == ToLower(item.searchText) = ToLower(q)

\* the test of the loop body: the item is kept
matches(item, q) == Contains(ToLower(item.searchText), ToLower(q))

\* the filtered list updateFilter builds
filterItems(its, q) ==
    IF q = <<>> THEN its
    ELSE SelectSeq(its, LAMBDA it : matches(it, q))

\* faulty variant: the clamp is left out
clampCursorMissing(c, n) == c

\* "Keep cursor in bounds"
clampCursor(c, n) == IF c >= n THEN Max(0, n - 1) ELSE c

\* faulty variant: the preview keeps its offset when the query changes
updateFilterKeepsScroll(q) ==
    /\ query' = q
    /\ filtered' = filterItems(items, q)
    /\ cursor' = clampCursor(cursor, Len(filtered'))
    /\ UNCHANGED previewScroll

\* updateFilter with the text input holding q
updateFilter(q) ==
    /\ query' = q
    /\ filtered' = filterItems(items, q)
    /\ cursor' = clampCursor(cursor, Len(filtered'))
    /\ previewScroll' = 0

(***************************************************************************)
(* initialModel(items, filterQuery, claudeFlags)                           *)
(***************************************************************************)
\* faulty variant: the browser starts on the whole index whatever the query
initialModelUnfiltered(its, filterQuery) ==
    /\ items = its
    /\ query = filterQuery
    /\ filtered = its
    /\ cursor = clampCursor(0, Len(filtered))
    /\ previewScroll = 0
    /\ width = 0
    /\ height = 0
    /\ listHeight = 0
    /\ mouseInPreview = FALSE
    /\ selected = <<>>
    /\ quitting = FALSE
    /\ confirmDelete = FALSE
    /\ deleteIndex = 0
    /\ errorMsg = ""
    /\ files = ConvIds(its)
    /\ panicked = FALSE
    /\ lastEvent = [msg |-> "init", confirming |-> FALSE]

initialModel(its, filterQuery) ==
    /\ items = its
    /\ query = filterQuery
    /\ filtered = filterItems(its, filterQuery)
    /\ cursor = clampCursor(0, Len(filtered))
    /\ previewScroll = 0
    /\ width = 0
    /\ height = 0
    /\ listHeight = 0
    /\ mouseInPreview = FALSE
    /\ selected = <<>>
    /\ quitting = FALSE
    /\ confirmDelete = FALSE
    /\ deleteIndex = 0
    /\ errorMsg = ""
    /\ files = ConvIds(its)
    /\ panicked = FALSE
    /\ lastEvent = [msg |-> "init", confirming |-> FALSE]

\* main starts the browser on a non-empty index only
Init ==
    /\ \E its \in ItemLists \ { <<>> }, q \in Queries : initialModel(its, q)
    /\ pipelineIdle


(***************************************************************************)
(* deleteConversation: remove the file of filtered[deleteIndex] and, when  *)
(* that succeeded, its entry from items and filtered.  removeOK is what    *)
(* the file system answers to the removal; a file that is already gone     *)
(* cannot be removed.  main.go holds the browser as it was before the     *)
(* delete flow; deleteConversation, the ctrl+d case and the prompt's       *)
(* answers follow the design document (section 4.5) and main_test.go.      *)
(***************************************************************************)
RemoveAt(s, i) == SubSeq(s, 1, i - 1) \o SubSeq(s, i + 1, Len(s))

\* the first position of item in s, 0 when it is not there
IndexOf(s, item) ==
    IF \E i \in 1..Len(s) : s[i] = item
    THEN CHOOSE i \in 1..Len(s) : s[i] = item /\ \A j \in 1..(i - 1) : s[j] # item
    ELSE 0

\* faulty variant: the entry stays in the list
RemoveItemForgotten(s, item) == s

RemoveItem(s, item) == IF IndexOf(s, item) = 0 THEN s ELSE RemoveAt(s, IndexOf(s, item))

\* faulty variant: the guard misses negative indices
validDeleteIndexNoLowerBound == deleteIndex < Len(filtered)

\* the guard at the top of deleteConversation
validDeleteIndex == deleteIndex >= 0 /\ deleteIndex < Len(filtered)

\* faulty variant: the entry leaves filtered although its file is still there
removeFailedDropsEntry ==
    /\ errorMsg' = "delete failed"
    /\ filtered' = RemoveAt(filtered, deleteIndex + 1)
    /\ UNCHANGED <<items, cursor, files>>

\* the removal failed: the error is kept for display
removeFailed ==
    /\ errorMsg' = "delete failed"
    /\ UNCHANGED <<items, filtered, cursor, files>>

\* the removal succeeded: the entry leaves both lists
removeSucceeded(target) ==
    /\ files' = files \ {target.conv}
    /\ items' = RemoveItem(items, target)
    /\ filtered' = RemoveAt(filtered, deleteIndex + 1)
    /\ cursor' = clampCursor(cursor, Len(filtered'))
    /\ errorMsg' = ""

deleteConversation(removeOK) ==
    IF ~validDeleteIndex
    THEN UNCHANGED <<items, filtered, cursor, errorMsg, files, confirmDelete, panicked>>
    ELSE IF (deleteIndex + 1) \notin DOMAIN filtered
    THEN \* filtered[deleteIndex] is an index out of range
         /\ panicked' = TRUE
         /\ UNCHANGED <<items, filtered, cursor, errorMsg, files, confirmDelete>>
    ELSE /\ IF removeOK /\ filtered[deleteIndex + 1].conv \in files
            THEN removeSucceeded(filtered[deleteIndex + 1])
            ELSE removeFailed
         /\ confirmDelete' = FALSE
         /\ UNCHANGED panicked

(***************************************************************************)
(* Update(msg).  Every handler is one action; lastEvent records msg.       *)
(***************************************************************************)
viewport == <<width, height, listHeight>>

\* the loop takes messages until Update returns tea.Quit or the program dies
running == ~quitting /\ ~panicked

event(m) == [msg |-> m, confirming |-> confirmDelete]

\* a wheel message, which carries the row of the pointer (msg.Y)
mouseEvent(m, y) == [msg |-> m, confirming |-> confirmDelete, row |-> y]
modelState == <<items, filtered, query, cursor, previewScroll, width, height,
                listHeight, mouseInPreview, selected, quitting, confirmDelete,
                deleteIndex, errorMsg, files, panicked>>

\* faulty variant: escape is not taken as an answer
cancelKeysWithoutEsc == {"n"}

\* the keys that answer no to the confirmation prompt
cancelKeys == {"n", "esc"}

\* a mouse message received while confirmDelete is set: navigation is
\* ignored while the prompt is up (section 4.5)
confirmMouse == UNCHANGED modelState

\* faulty variant: any key that is not "y" closes the prompt
confirmKeyAnyKeyCancels(key) ==
    IF key = "y"
    THEN /\ \E removeOK \in BOOLEAN : deleteConversation(removeOK)
         /\ UNCHANGED <<query, previewScroll, viewport, mouseInPreview, selected,
                        quitting, deleteIndex>>
    ELSE /\ confirmDelete' = FALSE
         /\ deleteIndex' = 0
         /\ UNCHANGED <<items, filtered, query, cursor, previewScroll, viewport,
                        mouseInPreview, selected, quitting, errorMsg, files, panicked>>

\* a key received while confirmDelete is set
confirmKey(key) ==
    IF key = "y"
    THEN /\ \E removeOK \in BOOLEAN : deleteConversation(removeOK)
         /\ UNCHANGED <<query, previewScroll, viewport, mouseInPreview, selected,
                        quitting, deleteIndex>>
    ELSE IF key \in cancelKeys
    THEN /\ confirmDelete' = FALSE
         /\ deleteIndex' = 0
         /\ UNCHANGED <<items, filtered, query, cursor, previewScroll, viewport,
                        mouseInPreview, selected, quitting, errorMsg, files, panicked>>
    ELSE UNCHANGED modelState

\* the list height a resize computes
listHeightFor(h) == Max(3, (h * 30) \div 100)

\* case tea.WindowSizeMsg
WindowSizeMsg(w, h) ==
    /\ running
    /\ lastEvent' = event("resize")
    /\ UNCHANGED pipelineVars
    /\ width' = w
    /\ height' = h
    /\ listHeight' = listHeightFor(h)
    /\ UNCHANGED <<items, filtered, query, cursor, previewScroll, mouseInPreview,
                   selected, quitting, confirmDelete, deleteIndex, errorMsg, files, panicked>>

\* faulty variant: the region recorded by the previous mouse message decides
inPreviewRecorded(y) == mouseInPreview

\* "Determine if mouse is in preview area"
inPreview(y) == y > 2 + listHeight

\* the cursor branch of wheel up and of the up key
cursorUp ==
    IF cursor > 0
    THEN cursor' = cursor - 1 /\ previewScroll' = 0
    ELSE UNCHANGED <<cursor, previewScroll>>

\* faulty variant: the preview keeps its offset when the cursor moves down
cursorDownKeepsScroll ==
    IF cursor < Len(filtered) - 1
    THEN cursor' = cursor + 1 /\ UNCHANGED previewScroll
    ELSE UNCHANGED <<cursor, previewScroll>>

\* the cursor branch of wheel down and of the down key
cursorDown ==
    IF cursor < Len(filtered) - 1
    THEN cursor' = cursor + 1 /\ previewScroll' = 0
    ELSE UNCHANGED <<cursor, previewScroll>>

\* case tea.MouseMsg, tea.MouseButtonWheelUp
MouseWheelUp(y) ==
    /\ running
    /\ lastEvent' = mouseEvent("wheelup", y)
    /\ UNCHANGED pipelineVars
    /\ IF confirmDelete THEN confirmMouse
       ELSE /\ mouseInPreview' = inPreview(y)
            /\ IF mouseInPreview'
               THEN previewScroll' = Max(0, previewScroll - 3) /\ UNCHANGED cursor
               ELSE cursorUp
            /\ UNCHANGED <<items, filtered, query, viewport, selected, quitting,
                           confirmDelete, deleteIndex, errorMsg, files, panicked>>

\* case tea.MouseMsg, tea.MouseButtonWheelDown
MouseWheelDown(y) ==
    /\ running
    /\ lastEvent' = mouseEvent("wheeldown", y)
    /\ UNCHANGED pipelineVars
    /\ IF confirmDelete THEN confirmMouse
       ELSE /\ mouseInPreview' = inPreview(y)
            /\ IF mouseInPreview'
               THEN /\ previewScroll + 3 <= MaxScroll
                    /\ previewScroll' = previewScroll + 3
                    /\ UNCHANGED cursor
               ELSE cursorDown
            /\ UNCHANGED <<items, filtered, query, viewport, selected, quitting,
                           confirmDelete, deleteIndex, errorMsg, files, panicked>>

\* case tea.MouseMsg, any other button or motion
MouseOther(y) ==
    /\ running
    /\ lastEvent' = event("mouse")
    /\ UNCHANGED pipelineVars
    /\ IF confirmDelete THEN confirmMouse
       ELSE /\ mouseInPreview' = inPreview(y)
            /\ UNCHANGED <<items, filtered, query, cursor, previewScroll, viewport,
                           selected, quitting, confirmDelete, deleteIndex, errorMsg,
                           files, panicked>>

\* faulty variant: quitting also records the item under the cursor
KeyQuitSelects(key) ==
    /\ running
    /\ lastEvent' = event(key)
    /\ UNCHANGED pipelineVars
    /\ IF confirmDelete THEN confirmKey(key)
       ELSE /\ quitting' = TRUE
            /\ selected' = IF Len(filtered) > 0 THEN <<filtered[cursor + 1].conv>>
                            ELSE selected
            /\ UNCHANGED <<items, filtered, query, cursor, previewScroll, viewport,
                           mouseInPreview, confirmDelete, deleteIndex,
                           errorMsg, files, panicked>>

\* case "ctrl+c", "esc"
KeyQuit(key) ==
    /\ running
    /\ lastEvent' = event(key)
    /\ UNCHANGED pipelineVars
    /\ IF confirmDelete THEN confirmKey(key)
       ELSE /\ quitting' = TRUE
            /\ UNCHANGED <<items, filtered, query, cursor, previewScroll, viewport,
                           mouseInPreview, selected, confirmDelete, deleteIndex,
                           errorMsg, files, panicked>>

\* faulty variant: the selection is the first item, not the one under the cursor
selectionFirst == IF Len(filtered) > 0 THEN <<filtered[1].conv>> ELSE selected

\* what enter leaves in model.selected
selection == IF Len(filtered) > 0 THEN <<filtered[cursor + 1].conv>> ELSE selected

\* faulty variant: the len(m.filtered) > 0 test is missing, so the index is
\* taken on an empty list too
enterPanicsUnguarded == (cursor + 1) \notin DOMAIN filtered

\* m.filtered[m.cursor] is an index out of range
enterPanics == Len(filtered) > 0 /\ (cursor + 1) \notin DOMAIN filtered

\* faulty variant: enter on an empty list is ignored and the loop goes on
KeyEnterIgnoredOnEmpty ==
    /\ running
    /\ lastEvent' = event("enter")
    /\ UNCHANGED pipelineVars
    /\ IF confirmDelete THEN confirmKey("enter")
       ELSE /\ IF enterPanics
               THEN panicked' = TRUE /\ UNCHANGED <<selected, quitting>>
               ELSE /\ selected' = selection
                    /\ quitting' = (Len(filtered) > 0)
                    /\ UNCHANGED panicked
            /\ UNCHANGED <<items, filtered, query, cursor, previewScroll, viewport,
                           mouseInPreview, confirmDelete, deleteIndex, errorMsg, files>>

\* case "enter"
KeyEnter ==
    /\ running
    /\ lastEvent' = event("enter")
    /\ UNCHANGED pipelineVars
    /\ IF confirmDelete THEN confirmKey("enter")
       ELSE /\ IF enterPanics
               THEN panicked' = TRUE /\ UNCHANGED <<selected, quitting>>
               ELSE selected' = selection /\ quitting' = TRUE /\ UNCHANGED panicked
            /\ UNCHANGED <<items, filtered, query, cursor, previewScroll, viewport,
                           mouseInPreview, confirmDelete, deleteIndex, errorMsg, files>>

\* case "up", "ctrl+p"
KeyUp(key) ==
    /\ running
    /\ lastEvent' = event("up")
    /\ UNCHANGED pipelineVars
    /\ IF confirmDelete THEN confirmKey(key)
       ELSE /\ cursorUp
            /\ UNCHANGED <<items, filtered, query, viewport, mouseInPreview, selected,
                           quitting, confirmDelete, deleteIndex, errorMsg, files, panicked>>

\* case "down", "ctrl+n"
KeyDown(key) ==
    /\ running
    /\ lastEvent' = event("down")
    /\ UNCHANGED pipelineVars
    /\ IF confirmDelete THEN confirmKey(key)
       ELSE /\ cursorDown
            /\ UNCHANGED <<items, filtered, query, viewport, mouseInPreview, selected,
                           quitting, confirmDelete, deleteIndex, errorMsg, files, panicked>>

\* faulty variant: page up subtracts 10 without the floor at 0
KeyPgUpNoFloor(key) ==
    /\ running
    /\ lastEvent' = event("pgup")
    /\ UNCHANGED pipelineVars
    /\ IF confirmDelete THEN confirmKey(key)
       ELSE /\ previewScroll' = previewScroll - 10
            /\ UNCHANGED <<items, filtered, query, cursor, viewport, mouseInPreview,
                           selected, quitting, confirmDelete, deleteIndex, errorMsg,
                           files, panicked>>

\* case "pgup", "ctrl+k"
KeyPgUp(key) ==
    /\ running
    /\ lastEvent' = event("pgup")
    /\ UNCHANGED pipelineVars
    /\ IF confirmDelete THEN confirmKey(key)
       ELSE /\ previewScroll' = Max(0, previewScroll - 10)
            /\ UNCHANGED <<items, filtered, query, cursor, viewport, mouseInPreview,
                           selected, quitting, confirmDelete, deleteIndex, errorMsg,
                           files, panicked>>

\* case "pgdown", "ctrl+j"
KeyPgDown(key) ==
    /\ running
    /\ lastEvent' = event("pgdown")
    /\ UNCHANGED pipelineVars
    /\ IF confirmDelete THEN confirmKey(key)
       ELSE /\ previewScroll + 10 <= MaxScroll
            /\ previewScroll' = previewScroll + 10
            /\ UNCHANGED <<items, filtered, query, cursor, viewport, mouseInPreview,
                           selected, quitting, confirmDelete, deleteIndex, errorMsg,
                           files, panicked>>

\* faulty variant: ctrl+u empties the text input and leaves the filter alone
KeyCtrlUKeepsFilter ==
    /\ running
    /\ lastEvent' = event("ctrl+u")
    /\ UNCHANGED pipelineVars
    /\ IF confirmDelete THEN confirmKey("ctrl+u")
       ELSE /\ query' = <<>>
            /\ UNCHANGED <<filtered, cursor, previewScroll>>
            /\ UNCHANGED <<items, viewport, mouseInPreview, selected, quitting,
                           confirmDelete, deleteIndex, errorMsg, files, panicked>>

\* case "ctrl+u"
KeyCtrlU ==
    /\ running
    /\ lastEvent' = event("ctrl+u")
    /\ UNCHANGED pipelineVars
    /\ IF confirmDelete THEN confirmKey("ctrl+u")
       ELSE /\ updateFilter(<<>>)
            /\ UNCHANGED <<items, viewport, mouseInPreview, selected, quitting,
                           confirmDelete, deleteIndex, errorMsg, files, panicked>>

\* faulty variant: the prompt opens on an empty list too
KeyCtrlDUnguarded ==
    /\ running
    /\ lastEvent' = event("ctrl+d")
    /\ UNCHANGED pipelineVars
    /\ IF confirmDelete THEN confirmKey("ctrl+d")
       ELSE /\ confirmDelete' = TRUE
            /\ deleteIndex' = cursor
            /\ UNCHANGED <<items, filtered, query, cursor, previewScroll, viewport,
                           mouseInPreview, selected, quitting, errorMsg, files, panicked>>

\* the delete request
KeyCtrlD ==
    /\ running
    /\ lastEvent' = event("ctrl+d")
    /\ UNCHANGED pipelineVars
    /\ IF confirmDelete THEN confirmKey("ctrl+d")
       ELSE /\ IF Len(filtered) > 0
               THEN confirmDelete' = TRUE /\ deleteIndex' = cursor
               ELSE UNCHANGED <<confirmDelete, deleteIndex>>
            /\ UNCHANGED <<items, filtered, query, cursor, previewScroll, viewport,
                           mouseInPreview, selected, quitting, errorMsg, files, panicked>>

\* "Update text input": the text input takes the key, and updateFilter runs
\* when its value changed
textInputUpdate(newValue) ==
    IF newValue # query
    THEN updateFilter(newValue)
    ELSE UNCHANGED <<query, filtered, cursor, previewScroll>>

\* a typed rune, appended to the value by the text input
KeyRunes(c) ==
    /\ running
    /\ lastEvent' = event(c)
    /\ UNCHANGED pipelineVars
    /\ IF confirmDelete THEN confirmKey(c)
       ELSE /\ Len(query) < MaxQueryLen
            /\ textInputUpdate(Append(query, c))
            /\ UNCHANGED <<items, viewport, mouseInPreview, selected, quitting,
                           confirmDelete, deleteIndex, errorMsg, files, panicked>>

\* backspace, which makes the text input drop the last rune of the value
KeyBackspace ==
    /\ running
    /\ lastEvent' = event("backspace")
    /\ UNCHANGED pipelineVars
    /\ IF confirmDelete THEN confirmKey("backspace")
       ELSE /\ textInputUpdate(IF query = <<>> THEN query
                               ELSE SubSeq(query, 1, Len(query) - 1))
            /\ UNCHANGED <<items, viewport, mouseInPreview, selected, quitting,
                           confirmDelete, deleteIndex, errorMsg, files, panicked>>

(***************************************************************************)
(* The interactive loop: one message is handled at a time until an Update  *)
(* returns tea.Quit.                                                       *)
(***************************************************************************)
Viewports == { <<80, 8>>, <<100, 30>> }
MouseRows == { 4, 6, 12 }

Next ==
    \/ \E v \in Viewports : WindowSizeMsg(v[1], v[2])
    \/ \E y \in MouseRows : MouseWheelUp(y)
    \/ \E y \in MouseRows : MouseWheelDown(y)
    \/ \E y \in MouseRows : MouseOther(y)
    \/ \E key \in {"ctrl+c", "esc"} : KeyQuit(key)
    \/ KeyEnter
    \/ \E key \in {"up", "ctrl+p"} : KeyUp(key)
    \/ \E key \in {"down", "ctrl+n"} : KeyDown(key)
    \/ \E key \in {"pgup", "ctrl+k"} : KeyPgUp(key)
    \/ \E key \in {"pgdown", "ctrl+j"} : KeyPgDown(key)
    \/ KeyCtrlU
    \/ KeyCtrlD
    \/ \E c \in Runes : KeyRunes(c)
    \/ KeyBackspace

Spec == Init /\ [][Next]_vars

(***************************************************************************)
(* renderPreview(item, height): the scrollable lines of the preview of a   *)
(* conversation.  A conversation of Corpus stands for the transcript that  *)
(* History gives it; "\n" ends a line of a message's text.  The texts are  *)
(* far shorter than the 500 bytes at which renderPreview cuts them.        *)
(***************************************************************************)
History(conv) ==
    CASE conv = 1 -> << [role |-> "user",      text |-> <<"b">>],
                        [role |-> "assistant", text |-> <<"Y">>] >>
      [] conv = 2 -> << [role |-> "user",      text |-> <<"n">>],
                        [role |-> "assistant", text |-> <<"n">>],
                        [role |-> "assistant", text |-> <<"n">>],
                        [role |-> "user",      text |-> <<"y">>],
                        [role |-> "assistant", text |-> <<"n">>],
                        [role |-> "assistant", text |-> <<"n", "\n", "n">>],
                        [role |-> "assistant", text |-> <<"n">>],
                        [role |-> "assistant", text |-> <<"B">>] >>
      [] conv = 3 -> << [role |-> "user",      text |-> <<"B", "\n", "n">>] >>
      [] OTHER    -> << >>

\* strings.Split(text, "\n")
RECURSIVE Split(_)
Split(text) ==
    IF \A i \in 1..Len(text) : text[i] # "\n" THEN <<text>>
    ELSE LET k == CHOOSE i \in 1..Len(text) :
                      text[i] = "\n" /\ \A j \in 1..(i - 1) : text[j] # "\n"
         IN  <<SubSeq(text, 1, k - 1)>> \o Split(SubSeq(text, k + 1, Len(text)))

\* the indices (from 0) of the messages whose text contains the query
matchSet(msgs, q) ==
    IF q = <<>> THEN {}
    ELSE { i \in 0..(Len(msgs) - 1) : Contains(ToLower(msgs[i + 1].text), ToLower(q)) }

\* faulty variant: the matches are shown without the messages around them
showSetWithoutContext(msgs, q) ==
    LET n == Len(msgs)
    IN  { i \in 0..(n - 1) : i < 2 \/ i >= n - 2 } \cup matchSet(msgs, q)

\* the indices of the messages shown: the first two, the last two, and each
\* match with the message before and the message after it
showSet(msgs, q) ==
    LET n == Len(msgs)
    IN  { i \in 0..(n - 1) : i < 2 \/ i >= n - 2 }
        \cup { i \in 0..(n - 1) : \E idx \in matchSet(msgs, q) : i \in (idx - 1)..(idx + 1) }

\* a line of the preview: what it is, its text, and the number it prints or
\* stands for: the count of a marker, and for the line that heads a
\* message the index of that message (the code prints its time and role)
previewLine(kind, text, n) == [kind |-> kind, text |-> text, n |-> n]

\* faulty variant: the marker counts the message it stands before as well
gapLinesCountingNext(i, lastShown) ==
    IF lastShown >= 0 /\ i > lastShown + 1
    THEN << previewLine("skipped", <<>>, i - lastShown),
            previewLine("empty", <<>>, 0) >>
    ELSE IF lastShown = 0 - 1 /\ i > 0
    THEN << previewLine("earlier", <<>>, i), previewLine("empty", <<>>, 0) >>
    ELSE << >>

\* the marker lines put before message i when messages were left out
gapLines(i, lastShown) ==
    IF lastShown >= 0 /\ i > lastShown + 1
    THEN << previewLine("skipped", <<>>, i - lastShown - 1),
            previewLine("empty", <<>>, 0) >>
    ELSE IF lastShown = 0 - 1 /\ i > 0
    THEN << previewLine("earlier", <<>>, i), previewLine("empty", <<>>, 0) >>
    ELSE << >>

\* the lines of message i: its prefix, the lines of its text, an empty line
messageLines(msgs, q, i) ==
    LET texts == Split(msgs[i + 1].text)
    IN  << previewLine(IF i \in matchSet(msgs, q) THEN "match" ELSE msgs[i + 1].role,
                       <<>>, i) >>
        \o [k \in 1..Len(texts) |-> previewLine("text", texts[k], 0)]
        \o << previewLine("empty", <<>>, 0) >>

\* "Display messages with gaps": the loop from message i on
RECURSIVE displayFrom(_, _, _, _)
displayFrom(msgs, q, i, lastShown) ==
    IF i >= Len(msgs)
    THEN IF lastShown < Len(msgs) - 1
         THEN << previewLine("more", <<>>, Len(msgs) - lastShown - 1) >>
         ELSE << >>
    ELSE IF i \notin showSet(msgs, q) THEN displayFrom(msgs, q, i + 1, lastShown)
    ELSE gapLines(i, lastShown) \o messageLines(msgs, q, i)
         \o displayFrom(msgs, q, i + 1, i)

\* msgLines, the lines that the preview scrolls over
msgLines(item, q) == displayFrom(History(item.conv), q, 0, 0 - 1)

\* the offset renderPreview shows from: it clamps previewScroll in its own
\* copy of the model (value receiver), the browser's previewScroll stays
shownFrom(scroll, n) == IF scroll >= n THEN Max(0, n - 1) ELSE scroll

\* faulty variant: a pointer receiver, the clamp reaches the browser's model
callerScrollClamped(scroll, n) == shownFrom(scroll, n)

\* the previewScroll of the browser's model once View has returned: View
\* and renderPreview work on their copy of the model
callerScroll(scroll, n) == scroll

\* renderPreview(item, height): the lines the preview scrolls over, the
\* offset it shows them from and the lines of the window, below the three
\* lines of the header
renderPreview(item, q, scroll, h) ==
    LET lines == msgLines(item, q)
        msgHeight == Max(1, h - 3)
        from == shownFrom(scroll, Len(lines))
    IN  [msgLines |-> lines, from |-> from,
         window |-> SubSeq(lines, from + 1, Min(from + msgHeight, Len(lines)))]

\* View(): "Loading..." before the first resize; then the rows of the list
\* (indices into filtered, the row of the cursor kept in sight) and, when
\* filtered is not empty, the preview of the item under the cursor
View ==
    IF width = 0 \/ height = 0
    THEN [loading |-> TRUE, rows |-> <<>>, preview |-> <<>>]
    ELSE LET visibleItems == listHeightFor(height)
             previewHeight == height - visibleItems - 6
             start == IF cursor >= visibleItems THEN cursor - visibleItems + 1 ELSE 0
             end == Min(start + visibleItems, Len(filtered))
         IN  [loading |-> FALSE,
              rows |-> [k \in 1..Max(0, end - start) |-> start + k - 1],
              preview |-> IF Len(filtered) > 0
                          THEN << renderPreview(filtered[cursor + 1], query,
                                                previewScroll, previewHeight) >>
                          ELSE <<>>]

(***************************************************************************)
(* View called on the browser in any state it can be in between two        *)
(* messages: any index, query, cursor inside filtered, preview offset and  *)
(* terminal size (none before the first resize).                           *)
(***************************************************************************)
InitPreview ==
    /\ \E its \in ItemLists, q \in Queries :
          /\ items = its
          /\ query = q
          /\ filtered = filterItems(its, q)
          /\ files = ConvIds(its)
    /\ cursor \in 0..Max(0, Len(filtered) - 1)
    /\ previewScroll \in 0..MaxScroll
    /\ \E v \in Viewports \cup { <<0, 0>> } :
          /\ width = v[1]
          /\ height = v[2]
          /\ listHeight = IF v[2] = 0 THEN 0 ELSE listHeightFor(v[2])
    /\ mouseInPreview \in BOOLEAN
    /\ selected = <<>>
    /\ quitting = FALSE
    /\ confirmDelete = FALSE
    /\ deleteIndex = 0
    /\ errorMsg = ""
    /\ panicked = FALSE
    /\ lastEvent = [msg |-> "init", confirming |-> FALSE]
    /\ scanIdle /\ poolIdle /\ parseIdle /\ textIdle /\ viewIdle

CallView ==
    /\ view = <<>>
    /\ view' = << View >>
    /\ previewScroll' =
          IF view'[1].preview = <<>> THEN previewScroll
          ELSE callerScroll(previewScroll, Len(view'[1].preview[1].msgLines))
    /\ UNCHANGED <<items, filtered, query, cursor, viewport, mouseInPreview,
                   selected, quitting, confirmDelete, deleteIndex, errorMsg,
                   files, panicked, lastEvent>>
    /\ UNCHANGED <<scanVars, pool, parseVars, textVars>>

NextPreview == CallView

SpecPreview == InitPreview /\ [][NextPreview]_vars


(***************************************************************************)
(* deleteConversation called on a model built field by field, as the       *)
(* tests build it: any deleteIndex, any cursor inside the list, and files  *)
(* that may already be gone.                                               *)
(***************************************************************************)
DeleteIndices == (0 - 1)..(MaxItems + 1)

InitDelete ==
    \E its \in ItemLists, q \in Queries, d \in DeleteIndices, c \in BOOLEAN :
        \E cur \in 0..Max(0, Len(filterItems(its, q)) - 1), fs \in SUBSET ConvIds(its) :
            /\ items = its
            /\ query = q
            /\ filtered = filterItems(its, q)
            /\ cursor = cur
            /\ previewScroll = 0
            /\ width = 0
            /\ height = 0
            /\ listHeight = 0
            /\ mouseInPreview = FALSE
            /\ selected = <<>>
            /\ quitting = FALSE
            /\ confirmDelete = c
            /\ deleteIndex = d
            /\ errorMsg = ""
            /\ files = fs
            /\ panicked = FALSE
            /\ lastEvent = [msg |-> "init", confirming |-> c]
            /\ pipelineIdle

CallDeleteConversation(removeOK) ==
    /\ running
    /\ lastEvent' = event("deleteConversation")
    /\ UNCHANGED pipelineVars
    /\ deleteConversation(removeOK)
    /\ UNCHANGED <<query, previewScroll, viewport, mouseInPreview, selected,
                   quitting, deleteIndex>>

NextDelete == \E removeOK \in BOOLEAN : CallDeleteConversation(removeOK)

SpecDelete == InitDelete /\ [][NextDelete]_vars

(***************************************************************************)
(* Transcript files.  A file name is the sequence of its segments          *)
(* ("agent-", the session id, ".jsonl"), a timestamp is a number that      *)
(* orders as its string does, with 0 for the empty string, and a text is   *)
(* a sequence of one-character strings.                                    *)
(***************************************************************************)
MaxStamp == 2       \* latest modification time and cutoff explored
MaxBytes == 2       \* largest file size and size limit explored

\* strings.HasPrefix, strings.HasSuffix, strings.TrimSuffix on a file name
HasPrefix(name, prefix) == Len(name) > 0 /\ name[1] = prefix

HasSuffix(name, suffix) == Len(name) > 0 /\ name[Len(name)] = suffix

TrimSuffix(name, suffix) ==
    IF HasSuffix(name, suffix) THEN SubSeq(name, 1, Len(name) - 1) ELSE name

\* strings.Join
RECURSIVE Join(_, _)
Join(parts, sep) ==
    IF parts = <<>> THEN <<>>
    ELSE IF Len(parts) = 1 THEN parts[1]
    ELSE parts[1] \o sep \o Join(Tail(parts), sep)

\* strings.TrimSpace(text) == ""
Whitespace == {" "}

\* faulty variant: only the empty text counts as blank
blankOnlyEmpty(text) == text = <<>>

blank(text) == \A i \in 1..Len(text) : text[i] \in Whitespace

\* message.content as it stands in a line: nothing, a JSON string, a JSON
\* array of content blocks, or some other JSON value
noContent == [kind |-> "none", str |-> <<>>, arr |-> <<>>]

stringContent(s) == [kind |-> "string", str |-> s, arr |-> <<>>]

arrayContent(blocks) == [kind |-> "array", str |-> <<>>, arr |-> blocks]

otherContent == [kind |-> "other", str |-> <<>>, arr |-> <<>>]

\* faulty variant: the blocks of every type give their text
RECURSIVE textPartsOfAnyType(_)
textPartsOfAnyType(arr) ==
    IF arr = <<>> THEN <<>>
    ELSE IF Head(arr).text # <<>>
    THEN <<Head(arr).text>> \o textPartsOfAnyType(Tail(arr))
    ELSE textPartsOfAnyType(Tail(arr))

\* the texts of the blocks of type text that are not empty
RECURSIVE textParts(_)
textParts(arr) ==
    IF arr = <<>> THEN <<>>
    ELSE LET item == Head(arr)
             rest == textParts(Tail(arr))
         IN  IF item.type = "text" /\ item.text # <<>>
             THEN <<item.text>> \o rest
             ELSE rest

extractText(content) ==
    CASE content.kind = "none" -> <<>>
      [] content.kind = "string" -> content.str
      [] content.kind = "array" -> Join(textParts(content.arr), <<" ">>)
      [] OTHER -> <<>>

\* what parseConversationFile returns: an error, nothing, or a conversation
failure == [err |-> TRUE, conv |-> <<>>]

absent == [err |-> FALSE, conv |-> <<>>]

found(conv) == [err |-> FALSE, conv |-> <<conv>>]

\* the admission filters on the file's age and size; 0 is the zero time and
\* the absent size limit.  main.go holds parseConversationFile(path) as it
\* was before the two filters; they follow the design document (section
\* 4.2) and main_test.go.
\* faulty variant: a file as old as the cutoff is excluded too
tooOldInclusive(f, cutoff) == cutoff # 0 /\ f.mtime <= cutoff

tooOld(f, cutoff) == cutoff # 0 /\ f.mtime < cutoff

\* faulty variant: a file as large as the limit is excluded too
tooLargeInclusive(f, maxSize) == maxSize > 0 /\ f.size >= maxSize

tooLarge(f, maxSize) == maxSize > 0 /\ f.size > maxSize

\* Message{Role, Text, Ts}
message(role, text, raw) == [role |-> role, text |-> text, ts |-> raw.ts]

\* the body of the scanner loop on one line
readLine(conv, raw) ==
    IF ~raw.json THEN conv
    ELSE IF raw.type = "user"
    THEN LET c == IF conv.cwd = "" THEN [conv EXCEPT !.cwd = raw.cwd] ELSE conv
             text == extractText(raw.content)
         IN  IF ~blank(text)
             THEN [c EXCEPT !.firstTimestamp = IF @ = 0 THEN raw.ts ELSE @,
                            !.messages = Append(@, message("user", text, raw))]
             ELSE c
    ELSE IF raw.type = "assistant"
    THEN LET text == extractText(raw.content)
         IN  IF ~blank(text)
             THEN [conv EXCEPT !.messages = Append(@, message("assistant", text, raw))]
             ELSE conv
    ELSE conv

\* for scanner.Scan(): it stops at the end of the file and at a line longer
\* than the scanner's buffer
RECURSIVE scanLines(_, _)
scanLines(conv, lines) ==
    IF lines = <<>> \/ Head(lines).big THEN conv
    ELSE scanLines(readLine(conv, Head(lines)), Tail(lines))

\* faulty variant: the reserved prefix is not looked at
reservedNever(name) == FALSE

reserved(name) == HasPrefix(name, "agent-")

noMessages(conv) == Len(conv.messages) = 0

parseConversationFile(f, cutoff, maxSize) ==
    IF f.access = "nostat" THEN failure
    ELSE IF reserved(f.name) THEN absent
    ELSE IF tooOld(f, cutoff) \/ tooLarge(f, maxSize) THEN absent
    ELSE IF f.access = "noopen" THEN failure
    ELSE LET conv == scanLines([sessionID |-> TrimSuffix(f.name, ".jsonl"),
                                cwd |-> "", firstTimestamp |-> 0,
                                lastTimestamp |-> 0, messages |-> <<>>], f.lines)
         IN  IF noMessages(conv) THEN absent
             ELSE found([conv EXCEPT
                            !.lastTimestamp = conv.messages[Len(conv.messages)].ts,
                            !.cwd = IF @ = "" THEN "unknown" ELSE @])

(***************************************************************************)
(* parseConversationFile called on one file: any name, any access, any     *)
(* age and size against any cutoff and limit, and any transcript of at     *)
(* most three of the lines below.                                          *)
(***************************************************************************)
line(type, cwd, content, ts) ==
    [json |-> TRUE, big |-> FALSE, type |-> type, cwd |-> cwd,
     content |-> content, ts |-> ts]

userLine == line("user", "/a", stringContent(<<"h", "i">>), 1)

assistantLine ==
    line("assistant", "/s",
         arrayContent(<< [type |-> "text", text |-> <<"o">>],
                         [type |-> "tool_use", text |-> <<>>],
                         [type |-> "text", text |-> <<"k">>] >>), 2)

blankLine == line("user", "/w", stringContent(<<" ">>), 3)

\* a user line that carries a message and no cwd
bareLine == line("user", "", stringContent(<<"y">>), 2)

summaryLine == line("summary", "", noContent, 0)

corruptLine == [summaryLine EXCEPT !.json = FALSE]

bigLine == [userLine EXCEPT !.big = TRUE]

Lines ==
    {userLine, assistantLine, blankLine, bareLine, summaryLine, corruptLine, bigLine}

Transcripts == UNION { [1..n -> Lines] : n \in 0..3 }

sessionFile == <<"s1", ".jsonl">>

agentFile == <<"agent-", "s1", ".jsonl">>

TranscriptFiles ==
    [name : {sessionFile, agentFile}, access : {"ok", "nostat", "noopen"},
     mtime : 1..MaxStamp, size : 1..MaxBytes, lines : Transcripts]

\* the browser before main has built its index
uiIdle == initialModel(<<>>, <<>>) /\ viewIdle

InitParse ==
    /\ \E f \in TranscriptFiles, cutoff \in 0..MaxStamp, maxSize \in 0..MaxBytes :
          parseIn = << [file |-> f, cutoff |-> cutoff, maxSize |-> maxSize] >>
    /\ parseOut = <<>>
    /\ uiIdle /\ scanIdle /\ poolIdle /\ textIdle

CallParseConversationFile ==
    /\ parseIn # <<>> /\ parseOut = <<>>
    /\ parseOut' = << parseConversationFile(parseIn[1].file, parseIn[1].cutoff,
                                            parseIn[1].maxSize) >>
    /\ UNCHANGED <<parseIn, uiVars, scanVars, pool, textVars, view>>

NextParse == CallParseConversationFile

SpecParse == InitParse /\ [][NextParse]_vars

(***************************************************************************)
(* extractText called on one message content: nothing, a string, some      *)
(* other JSON value, or an array of at most MaxBlocks content blocks.      *)
(***************************************************************************)
MaxBlocks == 3      \* most content blocks of a message

BlockTexts == { <<>>, <<"h">>, <<"k", " ">> }

Blocks == [type : {"text", "tool_use"}, text : BlockTexts]

BlockArrays == UNION { [1..n -> Blocks] : n \in 0..MaxBlocks }

Contents ==
    {noContent, otherContent}
        \cup { stringContent(s) : s \in { <<>>, <<" ">>, <<"h", "i">> } }
        \cup { arrayContent(arr) : arr \in BlockArrays }

InitText ==
    /\ extractIn \in { <<c>> : c \in Contents }
    /\ extractOut = <<>>
    /\ uiIdle /\ scanIdle /\ poolIdle /\ parseIdle

CallExtractText ==
    /\ extractIn # <<>> /\ extractOut = <<>>
    /\ extractOut' = << extractText(extractIn[1]) >>
    /\ UNCHANGED <<extractIn, uiVars, scanVars, pool, parseVars, view>>

NextText == CallExtractText

SpecText == InitText /\ [][NextText]_vars

(***************************************************************************)
(* getConversations: the walk, one goroutine per candidate file behind a   *)
(* semaphore, the goroutine that closes the results channel, the range     *)
(* over the channel and the sort.                                          *)
(***************************************************************************)
MaxFiles == 3       \* most entries under the projects directory

\* cap(sem)
SemCap == 20

\* faulty variant: the semaphore never has room
slotNeverFree(taken) == FALSE

\* faulty variant: a goroutine takes a slot whatever the semaphore holds
slotAlwaysFree(taken) == TRUE

\* sem <- struct{}{} goes through while the semaphore has room
slotFree(taken) == taken < SemCap

\* the callback of filepath.Walk
isCandidate(e) ==
    ~e.dir /\ HasSuffix(e.name, ".jsonl") /\ ~HasPrefix(e.name, "agent-")

walkFiles(entries) == SelectSeq(entries, isCandidate)

\* err == nil && conv != nil
delivers(out) == ~out.err /\ out.conv # <<>>

\* faulty variant: the comparison of an ascending sort
lessAscending(a, b) == a.lastTimestamp < b.lastTimestamp

\* the less function handed to sort.Slice
less(a, b) == a.lastTimestamp > b.lastTimestamp

\* sort.Slice on a slice of at most 12 elements is an insertion sort: the
\* last element moves left while it is less than the one before it
RECURSIVE insertLast(_)
insertLast(s) ==
    LET n == Len(s)
    IN  IF n >= 2 /\ less(s[n], s[n - 1])
        THEN Append(insertLast(Append(SubSeq(s, 1, n - 2), s[n])), s[n - 1])
        ELSE s

RECURSIVE sortSlice(_)
sortSlice(s) ==
    IF Len(s) <= 1 THEN s
    ELSE insertLast(Append(sortSlice(SubSeq(s, 1, Len(s) - 1)), s[Len(s)]))

\* the projects directory: every scan walks some of these entries, in this
\* order
entry(name, dir, access, lines) ==
    [name |-> name, dir |-> dir, access |-> access, mtime |-> 1, size |-> 1,
     lines |-> lines]

Directory ==
    << entry(<<"agent-", "s0", ".jsonl">>, FALSE, "ok", <<userLine>>),
       entry(<<"d", ".jsonl">>, TRUE, "ok", <<>>),
       entry(<<"notes", ".txt">>, FALSE, "ok", <<userLine>>),
       entry(<<"s1", ".jsonl">>, FALSE, "ok", <<userLine>>),
       entry(<<"s2", ".jsonl">>, FALSE, "ok", <<userLine, corruptLine>>),
       entry(<<"s3", ".jsonl">>, FALSE, "ok", <<userLine, assistantLine>>),
       entry(<<"s4", ".jsonl">>, FALSE, "ok", <<summaryLine>>),
       entry(<<"s5", ".jsonl">>, FALSE, "noopen", <<userLine>>) >>

RECURSIVE PickEntries(_, _)
PickEntries(S, i) ==
    IF i > Len(Directory) THEN <<>>
    ELSE IF i \in S THEN <<Directory[i]>> \o PickEntries(S, i + 1)
    ELSE PickEntries(S, i + 1)

Trees ==
    { PickEntries(S, 1) :
        S \in { T \in SUBSET (1..Len(Directory)) : Cardinality(T) <= MaxFiles } }

InitScan ==
    /\ tree \in Trees
    /\ candidates = <<>>
    /\ workers = <<>>
    /\ sem = 0
    /\ results = <<>>
    /\ closed = FALSE
    /\ conversations = <<>>
    /\ scanPc = "walk"
    /\ uiIdle /\ poolIdle /\ parseIdle /\ textIdle

notScan == <<uiVars, pool, parseVars, textVars, view>>

at(i, pc) == workers[i].pc = pc

\* faulty variant: wg.Wait() returns when one goroutine is done
anyDone == \E i \in 1..Len(workers) : at(i, "done")

\* wg.Wait() returns
allDone == \A i \in 1..Len(workers) : at(i, "done")

\* faulty variant: the range ends as soon as the channel is empty
rangeEndsWhenEmpty == results = <<>>

\* for conv := range results ends on the closed, drained channel
rangeEnds == closed /\ results = <<>>

\* faulty variant: every goroutine reads the loop variable after the loop
spawnArgLast(i) == candidates[Len(candidates)].name

\* the path handed to the goroutine of the i-th file
spawnArg(i) == candidates[i].name

\* the file a path names
fileAt(path) ==
    candidates[CHOOSE k \in 1..Len(candidates) : candidates[k].name = path]

Walk ==
    /\ scanPc = "walk"
    /\ candidates' = walkFiles(tree)
    /\ workers' = [i \in 1..Len(candidates') |->
                        [pc |-> "unspawned", path |-> <<>>, out |-> <<>>]]
    /\ scanPc' = "spawn"
    /\ UNCHANGED <<tree, sem, results, closed, conversations, notScan>>

\* wg.Add(1); go func(path string) {...}(file)
Spawn ==
    /\ scanPc = "spawn"
    /\ \E i \in 1..Len(workers) :
          /\ at(i, "unspawned")
          /\ \A j \in 1..(i - 1) : ~at(j, "unspawned")
          /\ workers' = [workers EXCEPT ![i].pc = "waiting", ![i].path = spawnArg(i)]
    /\ UNCHANGED <<tree, candidates, sem, results, closed, conversations, scanPc,
                   notScan>>

\* the loop over files is through: go func() { wg.Wait(); close(results) }()
\* and main reaches the range over results
SpawnCloser ==
    /\ scanPc = "spawn"
    /\ \A i \in 1..Len(workers) : ~at(i, "unspawned")
    /\ scanPc' = "collect"
    /\ UNCHANGED <<tree, candidates, workers, sem, results, closed, conversations,
                   notScan>>

\* sem <- struct{}{}
Acquire(i) ==
    /\ at(i, "waiting")
    /\ slotFree(sem)
    /\ sem' = sem + 1
    /\ workers' = [workers EXCEPT ![i].pc = "parsing"]
    /\ UNCHANGED <<tree, candidates, results, closed, conversations, scanPc, notScan>>

\* conv, err := parseConversationFile(path), which opens, reads and closes
\* the file, and results <- conv when it gave a conversation; the channel
\* has room for one conversation per candidate
Parse(i) ==
    /\ at(i, "parsing")
    /\ LET out == parseConversationFile(fileAt(workers[i].path), 0, 0)
       IN  /\ workers' = [workers EXCEPT ![i].pc = "parsed", ![i].out = <<out>>]
           /\ IF delivers(out)
              THEN /\ Len(results) < Len(candidates)
                   /\ ~closed
                   /\ results' = Append(results, out.conv[1])
              ELSE UNCHANGED results
    /\ UNCHANGED <<tree, candidates, sem, closed, conversations, scanPc, notScan>>

\* the deferred calls of the goroutine: <-sem, then wg.Done()
Return(i) ==
    /\ at(i, "parsed")
    /\ sem' = sem - 1
    /\ workers' = [workers EXCEPT ![i].pc = "done"]
    /\ UNCHANGED <<tree, candidates, results, closed, conversations, scanPc, notScan>>

\* wg.Wait() returned: close(results)
Close ==
    /\ scanPc = "collect"
    /\ ~closed
    /\ allDone
    /\ closed' = TRUE
    /\ UNCHANGED <<tree, candidates, workers, sem, results, conversations, scanPc,
                   notScan>>

\* one turn of the range: conversations = append(conversations, *conv)
Receive ==
    /\ scanPc = "collect"
    /\ results # <<>>
    /\ conversations' = Append(conversations, Head(results))
    /\ results' = Tail(results)
    /\ UNCHANGED <<tree, candidates, workers, sem, closed, scanPc, notScan>>

\* the range ended: sort.Slice(conversations, ...) and return
SortAndReturn ==
    /\ scanPc = "collect"
    /\ rangeEnds
    /\ conversations' = sortSlice(conversations)
    /\ scanPc' = "returned"
    /\ UNCHANGED <<tree, candidates, workers, sem, results, closed, notScan>>

NextScan ==
    \/ Walk
    \/ Spawn
    \/ SpawnCloser
    \/ \E i \in 1..Len(workers) : Acquire(i)
    \/ \E i \in 1..Len(workers) : Parse(i)
    \/ \E i \in 1..Len(workers) : Return(i)
    \/ Close
    \/ Receive
    \/ SortAndReturn

SpecScan == InitScan /\ [][NextScan]_vars

\* parseConversationFile on any file, and getConversations on any tree
InitFiles == InitParse \/ InitScan

NextFiles == NextParse \/ NextScan

SpecFiles == InitFiles /\ [][NextFiles]_vars

(***************************************************************************)
(* buildItems on the conversations a scan returned: any sequence of at     *)
(* most MaxFiles of the conversations below, one of them without a user    *)
(* message.                                                                *)
(***************************************************************************)
\* formatTimestamp: the minute of a timestamp as text, nothing for the
\* empty timestamp
formatTimestamp(ts) == IF ts = 0 THEN <<>> ELSE <<"T", ToString(ts)>>

\* the texts of the messages of role user, in order
RECURSIVE userTexts(_)
userTexts(messages) ==
    IF messages = <<>> THEN <<>>
    ELSE IF Head(messages).role = "user"
    THEN <<Head(messages).text>> \o userTexts(Tail(messages))
    ELSE userTexts(Tail(messages))

searchParts(conv) ==
    << conv.sessionID, <<conv.cwd>>, formatTimestamp(conv.firstTimestamp),
       formatTimestamp(conv.lastTimestamp) >> \o userTexts(conv.messages)

listItem(conv) == [conv |-> conv, searchText |-> Join(searchParts(conv), <<" ">>)]

\* faulty variant: a conversation without a user message gets no item
RECURSIVE buildItemsOfUsers(_)
buildItemsOfUsers(convs) ==
    IF convs = <<>> THEN <<>>
    ELSE IF userTexts(Head(convs).messages) = <<>>
    THEN buildItemsOfUsers(Tail(convs))
    ELSE <<listItem(Head(convs))>> \o buildItemsOfUsers(Tail(convs))

buildItems(convs) == [i \in 1..Len(convs) |-> listItem(convs[i])]

conversationOf(e) == parseConversationFile(e, 0, 0).conv[1]

Scanned ==
    { conversationOf(Directory[4]), conversationOf(Directory[5]),
      conversationOf(Directory[6]),
      conversationOf(entry(<<"s6", ".jsonl">>, FALSE, "ok", <<assistantLine>>)) }

ScanResults == UNION { [1..n -> Scanned] : n \in 0..MaxFiles }

InitBuild ==
    /\ conversations \in ScanResults
    /\ scanPc = "returned"
    /\ tree = <<>>
    /\ candidates = <<>>
    /\ workers = <<>>
    /\ sem = 0
    /\ results = <<>>
    /\ closed = TRUE
    /\ uiIdle /\ poolIdle /\ parseIdle /\ textIdle

\* items := buildItems(conversations) in main
CallBuildItems ==
    /\ scanPc = "returned"
    /\ items' = buildItems(conversations)
    /\ scanPc' = "indexed"
    /\ UNCHANGED <<filtered, query, cursor, previewScroll, width, height,
                   listHeight, mouseInPreview, selected, quitting, confirmDelete,
                   deleteIndex, errorMsg, files, panicked, lastEvent>>
    /\ UNCHANGED <<tree, candidates, workers, sem, results, closed, conversations,
                   pool, parseVars, textVars, view>>

NextBuild == CallBuildItems

SpecBuild == InitBuild /\ [][NextBuild]_vars

(***************************************************************************)
(* getConversations on more files than the semaphore has slots.  The       *)
(* goroutines are counted by where they stand: not yet spawned, waiting    *)
(* for a slot, parsing, holding their slot after the parse, done.  What a  *)
(* parse gives is any of its outcomes.                                     *)
(***************************************************************************)
MaxPoolFiles == 21  \* most candidate files of a counted scan

PoolSizes == { n \in 0..MaxPoolFiles : n <= 2 \/ n >= SemCap }

InitPool ==
    /\ \E n \in PoolSizes :
          pool = [unspawned |-> n, waiting |-> 0, parsing |-> 0, holding |-> 0,
                  done |-> 0, queued |-> 0, closed |-> FALSE, pc |-> "spawn"]
    /\ uiIdle /\ scanIdle /\ parseIdle /\ textIdle

notPool == <<uiVars, scanVars, parseVars, textVars, view>>

\* len(files)
poolFiles ==
    pool.unspawned + pool.waiting + pool.parsing + pool.holding + pool.done

\* len(sem)
poolSem == pool.parsing + pool.holding

PoolSpawn ==
    /\ pool.pc = "spawn"
    /\ pool.unspawned > 0
    /\ pool' = [pool EXCEPT !.unspawned = @ - 1, !.waiting = @ + 1]
    /\ UNCHANGED notPool

PoolSpawnCloser ==
    /\ pool.pc = "spawn"
    /\ pool.unspawned = 0
    /\ pool' = [pool EXCEPT !.pc = "collect"]
    /\ UNCHANGED notPool

PoolAcquire ==
    /\ pool.waiting > 0
    /\ slotFree(poolSem)
    /\ pool' = [pool EXCEPT !.waiting = @ - 1, !.parsing = @ + 1]
    /\ UNCHANGED notPool

PoolParse(gave) ==
    /\ pool.parsing > 0
    /\ gave => (pool.queued < poolFiles /\ ~pool.closed)
    /\ pool' = [pool EXCEPT !.parsing = @ - 1, !.holding = @ + 1,
                            !.queued = IF gave THEN @ + 1 ELSE @]
    /\ UNCHANGED notPool

PoolReturn ==
    /\ pool.holding > 0
    /\ pool' = [pool EXCEPT !.holding = @ - 1, !.done = @ + 1]
    /\ UNCHANGED notPool

PoolClose ==
    /\ pool.pc = "collect"
    /\ ~pool.closed
    /\ pool.done = poolFiles
    /\ pool' = [pool EXCEPT !.closed = TRUE]
    /\ UNCHANGED notPool

PoolReceive ==
    /\ pool.pc = "collect"
    /\ pool.queued > 0
    /\ pool' = [pool EXCEPT !.queued = @ - 1]
    /\ UNCHANGED notPool

PoolReturnSorted ==
    /\ pool.pc = "collect"
    /\ pool.closed /\ pool.queued = 0
    /\ pool' = [pool EXCEPT !.pc = "returned"]
    /\ UNCHANGED notPool

NextPool ==
    \/ PoolSpawn
    \/ PoolSpawnCloser
    \/ PoolAcquire
    \/ \E gave \in BOOLEAN : PoolParse(gave)
    \/ PoolReturn
    \/ PoolClose
    \/ PoolReceive
    \/ PoolReturnSorted

SpecPool == InitPool /\ [][NextPool]_vars

\* while some goroutine of the scan can take a step, the Go scheduler lets
\* one of them take it
FairPool == WF_vars(NextPool)

SpecPoolFair == InitPool /\ [][NextPool]_vars /\ FairPool

(***************************************************************************)
(* Vocabulary of the properties.                                           *)
(***************************************************************************)
\* two runes that are the same letter, whatever their case
SameLetter(a, b) ==
    \/ a = b
    \/ {a, b} \in { {"b", "B"}, {"y", "Y"}, {"n", "N"} }

\* sub occurs in s as a contiguous run, case ignored
ContainsIgnoringCase(s, sub) ==
    \E k \in 0..(Len(s) - Len(sub)) :
        \A i \in 1..Len(sub) : SameLetter(s[k + i], sub[i])

Range(s) == { s[i] : i \in 1..Len(s) }

\* f holds, once each and in the order of its, the items of its that p picks
IsSelection(f, its, p(_)) ==
    /\ \A i \in 1..Len(its) : (its[i] \in Range(f)) <=> p(its[i])
    /\ Range(f) \subseteq Range(its)
    /\ \A i, j \in 1..Len(f) : i < j =>
           \E a, b \in 1..Len(its) : a < b /\ its[a] = f[i] /\ its[b] = f[j]

\* s with its entry at position i (from 1) taken out, the rest in order
IsRemovalAt(t, s, i) ==
    /\ i \in 1..Len(s)
    /\ Len(t) = Len(s) - 1
    /\ \A j \in 1..Len(t) : t[j] = IF j < i THEN s[j] ELSE s[j + 1]

browsingEdits == Runes \cup {"backspace", "ctrl+u"}

\* C1: after every input event the cursor indexes an item of filtered when
\* filtered is non-empty, and is 0 when filtered is empty
C1_CursorInBounds ==
    /\ Len(filtered) > 0 => (0 <= cursor /\ cursor < Len(filtered))
    /\ Len(filtered) = 0 => cursor = 0

\* C1 witness: a typed rune shrank filtered to one item of three, and the
\* cursor (which the initial query or the keys had put further down) is on it
C1_Witness ==
    /\ lastEvent.msg \in Runes /\ ~lastEvent.confirming
    /\ Len(items) = 3 /\ Len(filtered) = 1 /\ cursor = 0
    /\ Len(query) = 2

\* C2: after a query edit, filtered is exactly the items whose searchText
\* contains the query ignoring case, in the order of items; with an empty
\* query it is items
C2_FilteredIsMatches ==
    (lastEvent.msg \in browsingEdits /\ ~lastEvent.confirming) =>
        /\ IsSelection(filtered, items,
                       LAMBDA it : ContainsIgnoringCase(it.searchText, query))
        /\ query = <<>> => filtered = items

\* C2 witness: the query "B" keeps the two items that hold a b or a B, out of
\* three
C2_Witness ==
    /\ lastEvent = [msg |-> "B", confirming |-> FALSE]
    /\ query = <<"B">>
    /\ Len(items) = 3
    /\ filtered = <<items[1], items[3]>>

\* C9: enter in browsing with filtered non-empty records the conversation at
\* filtered[cursor] and ends the loop
C9_EnterSelectsAtCursor ==
    [][ (~confirmDelete /\ Len(filtered) > 0 /\ lastEvent'.msg = "enter")
            => /\ selected' = <<filtered[cursor + 1].conv>>
               /\ quitting'
               /\ ~panicked' ]_vars

\* C9 witness: enter on the second of two filtered items, which is the third
\* item of the index
C9_Witness ==
    /\ lastEvent = [msg |-> "enter", confirming |-> FALSE]
    /\ quitting
    /\ cursor = 1 /\ Len(filtered) = 2 /\ Len(items) = 3
    /\ selected = <<3>>


\* the inputs C7 calls navigation or query edits: none of them answers the
\* confirmation prompt
navigationEvents ==
    {"up", "down", "wheelup", "wheeldown", "pgup", "pgdown", "ctrl+u", "backspace"}
        \cup (Runes \ {"y", "n"})

\* C3: a transcript file leaves the disk only in a step that handles "y"
\* while confirmDelete is set, and confirmDelete becomes set only in a step
\* that handles the delete request in browsing with filtered non-empty
C3_DeleteOnlyByConfirm ==
    [][ /\ files' # files =>
            (confirmDelete /\ lastEvent'.msg = "y" /\ files' \subseteq files)
        /\ (~confirmDelete /\ confirmDelete') =>
            (lastEvent'.msg = "ctrl+d" /\ Len(filtered) > 0) ]_vars

\* C3 witness: "y" was answered to the prompt and the removal succeeded (a
\* failed one leaves an error), under a non-empty query
C3_Witness ==
    /\ lastEvent = [msg |-> "y", confirming |-> TRUE]
    /\ errorMsg = "" /\ ~confirmDelete
    /\ query # <<>>
    /\ Cardinality(files) = 1 /\ files = ConvIds(items)

\* C4: a successful confirm-delete takes the conversation at
\* filtered[deleteIndex] out of items and out of filtered (one entry each,
\* the others keeping their order), leaves the cursor inside the new
\* filtered, clears the error and returns to browsing
C4_DeleteRemovesOne ==
    [][ (confirmDelete /\ lastEvent'.msg = "y" /\ files' # files) =>
            /\ validDeleteIndex
            /\ IsRemovalAt(filtered', filtered, deleteIndex + 1)
            /\ \E i \in 1..Len(items) :
                   /\ items[i] = filtered[deleteIndex + 1]
                   /\ IsRemovalAt(items', items, i)
            /\ files' = files \ {filtered[deleteIndex + 1].conv}
            /\ Len(filtered') > 0 => (0 <= cursor' /\ cursor' < Len(filtered'))
            /\ Len(filtered') = 0 => cursor' = 0
            /\ errorMsg' = ""
            /\ ~confirmDelete' ]_vars

\* C4 witness: the third of three items was deleted with the cursor on it;
\* two items remain and the cursor is on the last of them
C4_Witness ==
    /\ lastEvent = [msg |-> "y", confirming |-> TRUE]
    /\ errorMsg = "" /\ ~confirmDelete
    /\ deleteIndex = 2 /\ cursor = 1
    /\ Len(items) = 2 /\ Len(filtered) = 2
    /\ files = ConvIds(items)

\* C5: when the removal of a confirm-delete fails, items and filtered are
\* unchanged, an error message is set, the state is browsing again and the
\* loop goes on
C5_FailedDeleteKeepsIndex ==
    [][ (confirmDelete /\ lastEvent'.msg = "y" /\ files' = files) =>
            /\ items' = items
            /\ filtered' = filtered
            /\ errorMsg' # ""
            /\ ~confirmDelete'
            /\ ~quitting' /\ ~panicked' ]_vars

\* C5 witness: the answer "y" was given, the removal failed, and the browser
\* shows the error over the whole index
C5_Witness ==
    /\ lastEvent = [msg |-> "y", confirming |-> TRUE]
    /\ errorMsg # "" /\ ~confirmDelete /\ running
    /\ Len(items) = 3 /\ files = ConvIds(items)

\* C6: deleteConversation with deleteIndex outside filtered removes no file
\* and no entry of items or filtered, and does not crash
C6_InvalidIndexNoOp ==
    [][ ((deleteIndex < 0 \/ deleteIndex >= Len(filtered))
          /\ lastEvent'.msg = "deleteConversation") =>
            /\ UNCHANGED <<items, filtered, files>>
            /\ ~panicked' ]_vars

\* C6 witness: deleteConversation has run with deleteIndex = len(filtered)
\* on a non-empty filtered whose files are all there
C6_Witness ==
    /\ lastEvent.msg = "deleteConversation"
    /\ deleteIndex = Len(filtered) /\ Len(filtered) = 2
    /\ files = ConvIds(items) /\ Len(items) = 3

\* C7: in confirmingDelete a navigation or query-edit input changes none of
\* cursor, query, filtered, items, deleteIndex, and the state stays
\* confirmingDelete
C7_ConfirmIgnoresNavigation ==
    [][ (confirmDelete /\ lastEvent'.msg \in navigationEvents) =>
            /\ UNCHANGED <<cursor, query, filtered, items, deleteIndex>>
            /\ confirmDelete' ]_vars

\* C7 witness: the down key arrived in confirmingDelete with an item below
\* the cursor, and the prompt is still up
C7_Witness ==
    /\ lastEvent = [msg |-> "down", confirming |-> TRUE]
    /\ confirmDelete
    /\ cursor < Len(filtered) - 1

\* C8: "n" or escape in confirmingDelete returns to browsing, changes none of
\* items, filtered, cursor, query, removes no file and does not end the loop
C8_CancelDelete ==
    [][ (confirmDelete /\ lastEvent'.msg \in {"n", "esc"}) =>
            /\ ~confirmDelete'
            /\ UNCHANGED <<items, filtered, cursor, query, files>>
            /\ ~quitting' /\ ~panicked' ]_vars

\* C8 witness: escape was received in confirmingDelete and the browser runs on
C8_Witness ==
    /\ lastEvent = [msg |-> "esc", confirming |-> TRUE]
    /\ ~confirmDelete /\ running
    /\ Len(filtered) > 0

\* the browser starts on a non-empty index, so an empty one is what deleting
\* the only remaining item leaves
deletedLastItem == items = <<>> /\ ~confirmDelete

\* C10 as stated: after the confirmed deletion of the only remaining item,
\* items and filtered are empty and a following enter changes nothing
C10_EnterIsNoOp ==
    [][ /\ (confirmDelete /\ lastEvent'.msg = "y" /\ files' # files /\ Len(items) = 1)
            => (items' = <<>> /\ filtered' = <<>>)
        /\ (deletedLastItem /\ lastEvent'.msg = "enter")
            => UNCHANGED modelState ]_vars

\* C10 as amended: after the confirmed deletion of the only remaining item,
\* items and filtered are empty, and a following enter makes no selection
\* and does not crash, but it ends the interactive loop
C10_EnterSelectsNothing ==
    [][ /\ (confirmDelete /\ lastEvent'.msg = "y" /\ files' # files /\ Len(items) = 1)
            => (items' = <<>> /\ filtered' = <<>>)
        /\ (deletedLastItem /\ lastEvent'.msg = "enter")
            => (selected' = <<>> /\ ~panicked' /\ quitting'
                /\ UNCHANGED <<items, filtered, cursor, files>>) ]_vars

\* C10 witness: enter was handled on the index emptied by deletes
C10_Witness ==
    /\ lastEvent = [msg |-> "enter", confirming |-> FALSE]
    /\ items = <<>> /\ filtered = <<>> /\ files = {}
    /\ errorMsg = "" /\ quitting /\ selected = <<>>


\* C11: the loop yields at most one conversation; model.selected is set only
\* by enter in browsing with filtered non-empty, and escape or ctrl+c in
\* browsing ends the loop with no selection
C11_AtMostOneSelection ==
    [][ /\ Len(selected') <= 1
        /\ selected' # selected =>
              (lastEvent'.msg = "enter" /\ ~confirmDelete /\ Len(filtered) > 0)
        /\ (~confirmDelete /\ lastEvent'.msg \in {"esc", "ctrl+c"}) =>
              (quitting' /\ selected' = <<>>) ]_vars

\* C11 witness: ctrl+c ended the loop with nothing selected, after the cursor
\* had been moved down a filtered list
C11_Witness ==
    /\ lastEvent = [msg |-> "ctrl+c", confirming |-> FALSE]
    /\ quitting /\ selected = <<>>
    /\ cursor = 1 /\ query # <<>> /\ Len(filtered) = 2

\* the candidates of the scan whose parse gave a conversation
gave(i) == workers[i].out # <<>> /\ delivers(workers[i].out[1])

\* how often conv stands in s
Occurrences(s, conv) == Cardinality({ k \in 1..Len(s) : s[k] = conv })

\* the conversations of the candidates from position i on, in walk order
RECURSIVE inFileOrder(_)
inFileOrder(i) ==
    IF i > Len(workers) THEN <<>>
    ELSE IF gave(i) THEN <<workers[i].out[1].conv[1]>> \o inFileOrder(i + 1)
    ELSE inFileOrder(i + 1)

\* the call of parseConversationFile has returned
parsed == parseOut # <<>>

\* the file of the call could be statted, so that its name, modification
\* time and size are known
statted == parseIn[1].file.access # "nostat"

\* the call passed the admission filters and opened the file
readFile ==
    /\ parsed
    /\ parseIn[1].file.access = "ok"
    /\ ~HasPrefix(parseIn[1].file.name, "agent-")
    /\ ~tooOld(parseIn[1].file, parseIn[1].cutoff)
    /\ ~tooLarge(parseIn[1].file, parseIn[1].maxSize)

\* a line that can be read and decoded and that carries a message
carriesMessage(l) ==
    /\ ~l.big /\ l.json
    /\ l.type \in {"user", "assistant"}
    /\ \E i \in 1..Len(extractText(l.content)) : extractText(l.content)[i] # " "

\* the messages of the lines of a transcript that carry one, in file order
RECURSIVE messagesOf(_)
messagesOf(lines) ==
    IF lines = <<>> THEN <<>>
    ELSE IF carriesMessage(Head(lines))
    THEN << [role |-> Head(lines).type, text |-> extractText(Head(lines).content),
             ts |-> Head(lines).ts] >> \o messagesOf(Tail(lines))
    ELSE messagesOf(Tail(lines))

\* the messages parseConversationFile retained
retained == IF parseOut[1].conv = <<>> THEN <<>> ELSE parseOut[1].conv[1].messages

\* C12: in every state of a scan, over fewer or more files than the
\* semaphore has slots, at most 20 workers hold a slot, and so at most 20
\* parse
C12_AtMostTwentyParsing ==
    /\ pool.parsing <= SemCap
    /\ poolSem <= SemCap

\* C12 witness: 20 workers parse while another waits for a slot
C12_Witness ==
    /\ pool.parsing = SemCap
    /\ pool.waiting > 0

\* C13: when the scan returns, every candidate has been parsed, every
\* candidate whose parse gave a conversation has it in the result exactly
\* once, and the result holds nothing else, whatever the interleaving and
\* whatever the parses of the other candidates returned
C13_OnePerParsedFile ==
    scanPc = "returned" =>
        /\ \A i \in 1..Len(workers) : workers[i].out # <<>>
        /\ \A i \in 1..Len(workers) :
              gave(i) => Occurrences(conversations, workers[i].out[1].conv[1]) = 1
        /\ \A k \in 1..Len(conversations) :
              \E i \in 1..Len(workers) :
                  gave(i) /\ conversations[k] = workers[i].out[1].conv[1]

\* C13 witness: a scan returned one conversation although the parse of a
\* sibling failed and the parse of another gave nothing
C13_Witness ==
    /\ scanPc = "returned"
    /\ Len(conversations) = 1
    /\ \E i \in 1..Len(workers) : workers[i].out[1] = failure
    /\ \E i \in 1..Len(workers) : workers[i].out[1] = absent

\* C14: the sequence a scan returns is the one it returns when the workers
\* complete in walk order, whatever order they completed in, conversations
\* of equal lastTimestamp included
C14_OrderIndependent ==
    scanPc = "returned" => conversations = sortSlice(inFileOrder(1))

\* C15: the sequence a scan returns is sorted by lastTimestamp descending:
\* of every adjacent pair the earlier has the greater or an equal
\* lastTimestamp
C15_SortedDescending ==
    scanPc = "returned" =>
        \A k \in 1..(Len(conversations) - 1) :
            conversations[k].lastTimestamp >= conversations[k + 1].lastTimestamp

\* C15 witness: a scan returned three conversations, the latest first
C15_Witness ==
    /\ scanPc = "returned"
    /\ Len(conversations) = 3
    /\ conversations[1].lastTimestamp > conversations[3].lastTimestamp

\* C16: parsing a file that is read gives a conversation exactly when one of
\* its lines decodes with type user or assistant and a text that is not
\* blank, and never an error
C16_ConversationIffMessage ==
    readFile =>
        /\ ~parseOut[1].err
        /\ parseOut[1].conv # <<>> <=>
              \E i \in 1..Len(parseIn[1].file.lines) :
                  carriesMessage(parseIn[1].file.lines[i])

\* C17: the messages retained of a file that is read are those of its lines
\* that decode with type user or assistant and a text that is not blank, in
\* file order, wherever other lines stand between them
C17_SkipsUndecodableLines ==
    readFile => retained = messagesOf(parseIn[1].file.lines)

\* C18: parsing a file whose name starts with agent- gives nothing and no
\* error, whatever its lines and whether or not it can be opened, and no
\* conversation of such a file is ever in the results channel or in the
\* result of a scan
C18_AgentFilesAbsent ==
    /\ (parsed /\ statted /\ HasPrefix(parseIn[1].file.name, "agent-"))
          => parseOut[1] = absent
    /\ \A k \in 1..Len(results) : ~HasPrefix(results[k].sessionID, "agent-")
    /\ \A k \in 1..Len(conversations) :
          ~HasPrefix(conversations[k].sessionID, "agent-")

\* C18 witness: an agent- file holding a user message was parsed
C18_Witness ==
    /\ parsed /\ statted
    /\ HasPrefix(parseIn[1].file.name, "agent-")
    /\ parseIn[1].file.access = "ok"
    /\ parseIn[1].cutoff = 0 /\ parseIn[1].maxSize = 0
    /\ parseIn[1].file.lines = <<userLine>>

\* C19: a file modified strictly before a set cutoff gives nothing; a file
\* modified at the cutoff or later, and any file when no cutoff is set, is
\* parsed as it is without a cutoff
C19_AgeCutoff ==
    parsed =>
        LET call == parseIn[1]
        IN  /\ (statted /\ call.cutoff # 0 /\ call.file.mtime < call.cutoff)
                  => parseOut[1] = absent
            /\ (call.cutoff = 0 \/ call.file.mtime >= call.cutoff)
                  => parseOut[1] = parseConversationFile(call.file, 0, call.maxSize)

\* C19 witness: a file modified exactly at the cutoff gave a conversation
C19_Witness ==
    /\ parsed
    /\ parseIn[1].cutoff # 0
    /\ parseIn[1].file.mtime = parseIn[1].cutoff
    /\ parseOut[1].conv # <<>>

\* C20: a file strictly larger than a nonzero maxSize gives nothing and no
\* error; a file as large as maxSize or smaller, and any file when maxSize
\* is 0, is parsed as it is without a size limit
C20_SizeLimit ==
    parsed =>
        LET call == parseIn[1]
        IN  /\ (statted /\ call.maxSize > 0 /\ call.file.size > call.maxSize)
                  => parseOut[1] = absent
            /\ (call.maxSize = 0 \/ call.file.size <= call.maxSize)
                  => parseOut[1] = parseConversationFile(call.file, call.cutoff, 0)

\* C20 witness: a file exactly as large as the limit gave a conversation
C20_Witness ==
    /\ parsed
    /\ parseIn[1].maxSize > 0
    /\ parseIn[1].file.size = parseIn[1].maxSize
    /\ parseOut[1].conv # <<>>

\* the texts of s, in order, with one space between each two
RECURSIVE SpaceSeparated(_)
SpaceSeparated(s) ==
    IF Len(s) = 0 THEN <<>>
    ELSE IF Len(s) = 1 THEN s[1]
    ELSE SpaceSeparated(SubSeq(s, 1, Len(s) - 1)) \o <<" ">> \o s[Len(s)]

\* the text field of every block of arr
TextsOf(arr) == [i \in 1..Len(arr) |-> arr[i].text]

IsTextBlock(b) == b.type = "text"

IsFilledTextBlock(b) == b.type = "text" /\ Len(b.text) > 0

\* the call of extractText has returned
extracted == extractOut # <<>>

\* C21: extractText returns a string verbatim, for an array of blocks the
\* space-separated texts of every block of type text in their order, and
\* the empty string for no content and for any other content
C21_ExtractEveryTextBlock ==
    extracted =>
        LET c == extractIn[1]
        IN  extractOut[1] =
                CASE c.kind = "string" -> c.str
                  [] c.kind = "array" ->
                        SpaceSeparated(TextsOf(SelectSeq(c.arr, IsTextBlock)))
                  [] OTHER -> <<>>

\* C21 as amended: for an array of blocks extractText returns the
\* space-separated texts of the blocks of type text whose text is not
\* empty; a text block with an empty text adds no separator
C21_ExtractFilledTextBlocks ==
    extracted =>
        LET c == extractIn[1]
        IN  extractOut[1] =
                CASE c.kind = "string" -> c.str
                  [] c.kind = "array" ->
                        SpaceSeparated(TextsOf(SelectSeq(c.arr, IsFilledTextBlock)))
                  [] OTHER -> <<>>

\* C21 witness: extractText ran on a text block, an empty text block, a
\* tool_use block with a text, and returned the first text alone
C21_Witness ==
    /\ extracted
    /\ extractIn[1].kind = "array"
    /\ extractIn[1].arr = << [type |-> "text", text |-> <<"h">>],
                             [type |-> "text", text |-> <<>>],
                             [type |-> "tool_use", text |-> <<"h">>] >>
    /\ extractOut[1] = <<"h">>

\* C22: buildItems returns one item for every conversation, in the order
\* of the conversations, item i wrapping conversation i, whether or not the
\* conversation has a message of role user
C22_OneItemPerConversation ==
    scanPc = "indexed" =>
        /\ Len(items) = Len(conversations)
        /\ \A i \in 1..Len(conversations) : items[i].conv = conversations[i]

\* C22 witness: the index was built from three conversations, the second
\* of them without a user message
C22_Witness ==
    /\ scanPc = "indexed"
    /\ Len(conversations) = 3
    /\ Len(items) = 3
    /\ userTexts(conversations[2].messages) = <<>>
    /\ userTexts(conversations[1].messages) # <<>>
    /\ conversations[1] # conversations[3]

\* q is a prefix of r
IsPrefix(q, r) == Len(q) <= Len(r) /\ SubSeq(r, 1, Len(q)) = q

\* C23: filtering by the query a second time changes nothing, and every
\* query that extends the current query keeps a subset of the items the
\* current query keeps
C23_FilterIdempotentMonotonic ==
    LET once == filterItems(items, query)
    IN  /\ filterItems(once, query) = once
        /\ filterItems(items, query) = once
        /\ \A r \in Queries :
              IsPrefix(query, r) => Range(filterItems(items, r)) \subseteq Range(once)

\* C23 witness: the query "B" was typed and keeps two of three items, and
\* its extension "Bn" keeps one of the two
C23_Witness ==
    /\ lastEvent = [msg |-> "B", confirming |-> FALSE]
    /\ query = <<"B">>
    /\ Len(items) = 3
    /\ Len(filtered) = 2
    /\ Len(filterItems(items, <<"B", "n">>)) = 1
    /\ Len(filterItems(filtered, <<"B", "n">>)) = 1

\* no goroutine of the scan is still running
everyWorkerDone == \A i \in 1..Len(workers) : workers[i].pc = "done"

\* C24: the result collection changes only when every worker has finished
C24_CollectsAfterWorkers ==
    [][ conversations' # conversations => everyWorkerDone ]_vars

\* C24 as amended: the result collection is changed only by the range of
\* getConversations itself, which appends the conversation at the head of
\* the channel, also while workers are still running; the sort and the
\* return come only after every worker has finished and the channel has
\* been closed
C24_CollectsWhileWorkersRun ==
    [][ /\ conversations' # conversations =>
              /\ scanPc = "collect"
              /\ workers' = workers
              /\ \/ /\ results # <<>>
                    /\ conversations' = Append(conversations, Head(results))
                 \/ scanPc' = "returned"
        /\ (scanPc # "returned" /\ scanPc' = "returned") =>
              (everyWorkerDone /\ closed /\ results = <<>>) ]_vars

\* C24 witness: a conversation has been collected while a worker has not
\* yet finished
C24_Witness ==
    /\ scanPc = "collect"
    /\ Len(conversations) >= 1
    /\ \E i \in 1..Len(workers) : workers[i].pc \in {"waiting", "parsing"}

\* C25: a scan over no file, a few files or more files than the semaphore
\* has slots returns; by then no worker waits for a slot or holds one, every
\* result sent has been received, and the results channel is closed, which
\* happens once, when every worker is done
C25_ScanTerminates ==
    /\ <>(pool.pc = "returned")
    /\ [](pool.pc = "returned" =>
            /\ pool.unspawned = 0 /\ pool.waiting = 0
            /\ poolSem = 0
            /\ pool.queued = 0
            /\ pool.closed)
    /\ [][ pool'.closed # pool.closed =>
              (~pool.closed /\ pool.done = poolFiles) ]_vars

\* C25 witness: a scan over more files than the semaphore has slots has
\* returned
C25_Witness ==
    /\ pool.pc = "returned"
    /\ pool.done > SemCap

\* the goroutines that were handed the path of the k-th candidate
workersOf(k) ==
    { i \in 1..Len(workers) :
        workers[i].pc # "unspawned" /\ workers[i].path = candidates[k].name }

\* the goroutines inside parseConversationFile, where a file is open
parsingWorkers == { i \in 1..Len(workers) : workers[i].pc = "parsing" }

\* the goroutines that hold a semaphore slot
slotHolders == { i \in 1..Len(workers) : workers[i].pc \in {"parsing", "parsed"} }

\* C26: every candidate file is handed to at most one worker, and to
\* exactly one that parsed it when the scan returns; a file is open only in
\* a worker that holds a slot, a worker gives its slot back only after its
\* parse has returned and closed the file, and so no more files are open
\* than slots are taken, at most 20
C26_OneWorkerPerFile ==
    [][ /\ \A k \in 1..Len(candidates') : Cardinality(workersOf(k)') <= 1
        /\ scanPc' = "returned" =>
              \A k \in 1..Len(candidates') :
                  \E i \in workersOf(k)' : workers'[i].out # <<>>
        /\ parsingWorkers' \subseteq slotHolders'
        /\ Cardinality(slotHolders') = sem'
        /\ Cardinality(parsingWorkers') <= sem' /\ sem' <= SemCap
        /\ \A i \in slotHolders \ slotHolders' :
              workers[i].pc = "parsed" /\ workers[i].out # <<>> ]_vars

\* C26 witness: two workers parse two different files at the same time,
\* each holding a slot
C26_Witness ==
    /\ sem = 2
    /\ \E i, j \in parsingWorkers : workers[i].path # workers[j].path

\* C27: in every state of the browser, after a deletion made under a
\* non-empty query and after ctrl+u too, filtered holds exactly the items
\* whose searchText contains the query ignoring case, once each and in the
\* order they have in items
C27_FilteredIsSubsequence ==
    /\ IsSelection(filtered, items,
                   LAMBDA it : ContainsIgnoringCase(it.searchText, query))
    /\ \A i \in 1..Len(filtered) : \E a \in 1..Len(items) : items[a] = filtered[i]
    /\ Len(filtered) <= Len(items)

\* C27 witness: under the query "n", which two of three items match, one of
\* the two was deleted; the other is all that filtered holds
C27_Witness ==
    /\ lastEvent = [msg |-> "y", confirming |-> TRUE]
    /\ errorMsg = "" /\ ~confirmDelete
    /\ query = <<"n">>
    /\ Len(items) = 2 /\ Len(filtered) = 1
    /\ files = ConvIds(items)

cursorMoves == {"up", "down", "wheelup", "wheeldown"}

\* where a cursor movement asks the cursor to go
requested(m) == IF m \in {"up", "wheelup"} THEN cursor - 1 ELSE cursor + 1

\* C28: an up or down key, or a wheel step with the pointer over the list,
\* moves the cursor by one and puts the preview offset at 0 when the new
\* position is inside filtered; otherwise (cursor at the end asked for, or
\* filtered empty) cursor and preview offset stay as they were
C28_CursorMovesByOne ==
    [][ ( /\ ~confirmDelete
          /\ lastEvent'.msg \in cursorMoves
          /\ lastEvent'.msg \in {"wheelup", "wheeldown"} => ~mouseInPreview' ) =>
            IF requested(lastEvent'.msg) \in 0..(Len(filtered) - 1)
            THEN cursor' = requested(lastEvent'.msg) /\ previewScroll' = 0
            ELSE cursor' = cursor /\ previewScroll' = previewScroll ]_vars

\* C28 witness: a wheel step over the list took the cursor to the last of
\* three items, and the preview is at its top
C28_Witness ==
    /\ lastEvent.msg = "wheeldown" /\ ~lastEvent.confirming
    /\ ~mouseInPreview
    /\ Len(filtered) = 3 /\ cursor = 2
    /\ previewScroll = 0

\* C29: when an input changes the query, or ctrl+u clears it, the cursor
\* becomes min(cursor, len(filtered) - 1) over the new filtered, not below
\* 0, and the preview offset becomes 0
C29_EditClampsCursor ==
    [][ ( /\ ~confirmDelete
          /\ lastEvent'.msg \in browsingEdits
          /\ (query' # query \/ lastEvent'.msg = "ctrl+u") ) =>
            /\ cursor' = Max(0, Min(cursor, Len(filtered') - 1))
            /\ previewScroll' = 0 ]_vars

\* C29 witness: a typed rune left two items of three, and the cursor, which
\* was on the second or the third, is on the second
C29_Witness ==
    /\ lastEvent.msg \in Runes /\ ~lastEvent.confirming
    /\ Len(query) = 1
    /\ Len(items) = 3 /\ Len(filtered) = 2 /\ cursor = 1
    /\ previewScroll = 0

\* the preview of the conversation under the cursor
previewLines == msgLines(filtered[cursor + 1], query)

\* C30: whenever a conversation is under the cursor, the preview offset is
\* at least 0 and below the number of lines of that conversation's preview
C30_ScrollInsidePreview ==
    (cursor + 1) \in DOMAIN filtered =>
        (0 <= previewScroll /\ previewScroll < Len(previewLines))

\* the step a preview-scroll input asks for: 3 for the wheel, 10 for the
\* page keys, negative upward
scrollStep(m) ==
    CASE m = "wheelup"   -> 0 - 3
      [] m = "wheeldown" -> 3
      [] m = "pgup"      -> 0 - 10
      [] m = "pgdown"    -> 10

\* C31: a page key, or a wheel step with the pointer over the preview, adds
\* its step (3 or 10) to the preview offset when it goes down, whatever the
\* length of the preview, subtracts it when it goes up but not below 0, and
\* leaves cursor and filtered as they were
C31_ScrollByFixedStep ==
    [][ ( /\ ~confirmDelete
          /\ lastEvent'.msg \in {"wheelup", "wheeldown", "pgup", "pgdown"}
          /\ lastEvent'.msg \in {"wheelup", "wheeldown"} => mouseInPreview' ) =>
            /\ previewScroll' = Max(0, previewScroll + scrollStep(lastEvent'.msg))
            /\ cursor' = cursor
            /\ filtered' = filtered ]_vars

\* C31 witness: three wheel steps down over the preview of a conversation
\* whose preview has fewer than 9 lines took the offset to 9
C31_Witness ==
    /\ lastEvent.msg = "wheeldown" /\ ~lastEvent.confirming
    /\ mouseInPreview
    /\ previewScroll = 9
    /\ (cursor + 1) \in DOMAIN filtered
    /\ Len(previewLines) < 9

wheelEvents == {"wheelup", "wheeldown"}

\* the band of a row under the list height of the latest resize: rows up to
\* 2 + listHeight are the search line, the separator and the list
rowInPreview(y) == y > 2 + listHeight

\* C32: the list height is max(3, 30% of the height of the latest resize),
\* and a wheel step scrolls the preview exactly when the row of that event
\* lies below the list band of that height, and moves the cursor otherwise,
\* whatever region the message before it had recorded
C32_WheelRegionByRow ==
    /\ [][ height' # height => listHeight' = Max(3, (height' * 30) \div 100) ]_vars
    /\ [][ (~confirmDelete /\ lastEvent'.msg \in wheelEvents) =>
              /\ listHeight' = listHeight
              /\ mouseInPreview' = rowInPreview(lastEvent'.row)
              /\ IF rowInPreview(lastEvent'.row)
                 THEN /\ cursor' = cursor
                      /\ previewScroll' =
                             Max(0, previewScroll + scrollStep(lastEvent'.msg))
                 ELSE IF requested(lastEvent'.msg) \in 0..(Len(filtered) - 1)
                 THEN cursor' = requested(lastEvent'.msg) /\ previewScroll' = 0
                 ELSE cursor' = cursor /\ previewScroll' = previewScroll ]_vars

\* C32 witness: after a resize to 30 rows (list height 9) and a wheel step
\* over the preview that took the offset to 3, a wheel step at row 6, in the
\* list band, moved the cursor and reset the offset although the region on
\* record was the preview
C32_Witness ==
    /\ lastEvent.msg = "wheeldown" /\ ~lastEvent.confirming
    /\ lastEvent.row = 6
    /\ height = 30 /\ listHeight = 9
    /\ ~mouseInPreview
    /\ cursor = 1 /\ previewScroll = 0

\* C33: enter in browsing ends the interactive loop whether filtered is
\* empty or not: the model is quitting afterwards, nothing crashed, no
\* message is handled after it, and with filtered empty nothing is selected
\* and nothing else changed, as after a quit key
C33_EnterEndsLoop ==
    /\ [][ (~confirmDelete /\ lastEvent'.msg = "enter") =>
              /\ quitting' /\ ~panicked'
              /\ Len(filtered) = 0 =>
                    /\ selected' = <<>>
                    /\ UNCHANGED <<items, filtered, query, cursor, previewScroll,
                                   viewport, mouseInPreview, confirmDelete,
                                   deleteIndex, errorMsg, files>> ]_vars
    /\ [][ ~quitting ]_vars

\* C33 witness: enter ended the loop on a filtered list that a query matching
\* nothing had emptied, with nothing selected
C33_Witness ==
    /\ lastEvent = [msg |-> "enter", confirming |-> FALSE]
    /\ quitting /\ selected = <<>>
    /\ items # <<>> /\ filtered = <<>> /\ query # <<>>

\* C34: ctrl+u in browsing leaves the browser as an edit of the query to the
\* empty string would: the query is empty, filtered is items, the preview
\* offset is 0, and the cursor, which was inside the shorter list, is where
\* it was
C34_ClearQueryIsEmptyEdit ==
    [][ (~confirmDelete /\ lastEvent'.msg = "ctrl+u") =>
            /\ query' = <<>>
            /\ items' = items
            /\ filtered' = items
            /\ filtered' = filterItems(items, <<>>)
            /\ previewScroll' = 0
            /\ cursor' = cursor
            /\ cursor' = clampCursor(cursor, Len(filtered')) ]_vars

\* C34 witness: ctrl+u brought back all three items with the cursor on the
\* second, where it can only have been under a query that kept two or more
C34_Witness ==
    /\ lastEvent = [msg |-> "ctrl+u", confirming |-> FALSE]
    /\ query = <<>>
    /\ Len(items) = 3 /\ filtered = items
    /\ cursor = 1 /\ previewScroll = 0

\* the conversation parseConversationFile returned
produced == parsed /\ parseOut[1].conv # <<>>

\* C35: the firstTimestamp of a conversation the parser returns is the
\* timestamp of the first message it retained, a user's or the assistant's
C35_FirstTimestampOfFirstMessage ==
    produced => parseOut[1].conv[1].firstTimestamp = retained[1].ts

\* a text with a rune that is not white space
NonBlank(text) == \E i \in 1..Len(text) : text[i] \notin Whitespace

\* the message a line of a transcript carries
messageOfLine(l) == [role |-> l.type, text |-> extractText(l.content), ts |-> l.ts]

\* msgs are the messages of some lines of the transcript, taken in the
\* order of the lines
InLineOrder(msgs, lines) ==
    \E pos \in [1..Len(msgs) -> 1..Len(lines)] :
        /\ \A k \in 1..Len(msgs) :
              /\ lines[pos[k]].type \in {"user", "assistant"}
              /\ msgs[k] = messageOfLine(lines[pos[k]])
        /\ \A j, k \in 1..Len(msgs) : j < k => pos[j] < pos[k]

\* C36: a conversation the parser returns has at least one message, no
\* message with a blank text, its messages in the order of the lines they
\* come from, and as lastTimestamp the timestamp of its last message
C36_LastTimestampAndMessages ==
    produced =>
        /\ Len(retained) > 0
        /\ \A k \in 1..Len(retained) : NonBlank(retained[k].text)
        /\ InLineOrder(retained, parseIn[1].file.lines)
        /\ parseOut[1].conv[1].lastTimestamp = retained[Len(retained)].ts

\* C36 witness: of a user line with a blank text, the assistant's line and a
\* user line, the last two were retained; the last timestamp is the user's
C36_Witness ==
    /\ produced
    /\ parseIn[1].file.lines = <<blankLine, assistantLine, userLine>>
    /\ Len(retained) = 2
    /\ parseOut[1].conv[1].lastTimestamp = userLine.ts

\* the cwd values of the user lines of a transcript that carry one, in the
\* order of the lines
userCwds(lines) ==
    SelectSeq([k \in 1..Len(lines) |->
                  IF lines[k].json /\ lines[k].type = "user" THEN lines[k].cwd ELSE ""],
              LAMBDA c : c # "")

\* C37: the cwd of a conversation the parser returns is the cwd of the first
\* user line of the file that carries one, whatever later user lines and the
\* assistant's lines carry, and "unknown" when no user line carries one
C37_CwdOfFirstUserLine ==
    produced =>
        parseOut[1].conv[1].cwd =
            IF userCwds(parseIn[1].file.lines) = <<>> THEN "unknown"
            ELSE Head(userCwds(parseIn[1].file.lines))

\* View has rendered the preview of the conversation under the cursor
rendered == view # <<>> /\ view[1].preview # <<>>

\* the lines the rendered preview scrolls over
renderedLines == view[1].preview[1].msgLines

\* the messages of the conversation under the cursor
previewed == History(filtered[cursor + 1].conv)

\* the line heads a message
headsMessage(l) == l.kind \in {"user", "assistant", "match"}

\* the line is a marker that stands for messages left out
isMarker(l) == l.kind \in {"skipped", "earlier", "more"}

\* the indices of the messages that lines shows
shownIndices(lines) ==
    { lines[p].n : p \in { k \in 1..Len(lines) : headsMessage(lines[k]) } }

\* the indices (from 0) of the messages of msgs that hold a non-empty query
hits(msgs, q) ==
    { i \in 0..(Len(msgs) - 1) :
        q # <<>> /\ ContainsIgnoringCase(msgs[i + 1].text, q) }

\* C38: the messages shown in the preview of a conversation are the first
\* two, the last two, every message whose text holds the non-empty query
\* ignoring case, and the message before and the message after each of
\* those; with an empty query only the first two and the last two
C38_ShownIndices ==
    rendered =>
        LET n == Len(previewed)
            h == hits(previewed, query)
            edge == { i \in 0..(n - 1) : i < 2 \/ i >= n - 2 }
        IN  /\ shownIndices(renderedLines) =
                   edge \cup { i \in 0..(n - 1) :
                                 i \in h \/ (i - 1) \in h \/ (i + 1) \in h }
            /\ query = <<>> => shownIndices(renderedLines) = edge

\* C38 witness: under the query "y", which the fourth of eight messages
\* holds, the preview shows that message with its two neighbours besides the
\* first two and the last two, and leaves out the sixth
C38_Witness ==
    /\ rendered
    /\ query = <<"y">>
    /\ Len(previewed) = 8
    /\ shownIndices(renderedLines) = {0, 1, 2, 3, 4, 6, 7}

RECURSIVE SumOfCounts(_)
SumOfCounts(ls) == IF ls = <<>> THEN 0 ELSE Head(ls).n + SumOfCounts(Tail(ls))

\* the positions in lines of the lines that head a message
headPositions(lines) == { p \in 1..Len(lines) : headsMessage(lines[p]) }

\* the markers of lines between positions a and b
markersBetween(lines, a, b) == { p \in (a + 1)..(b - 1) : isMarker(lines[p]) }

\* between the positions a and b of lines, omitted messages are stood for
\* by one marker that counts them, and no marker stands there when none is
oneMarkerFor(lines, a, b, omitted) ==
    LET M == markersBetween(lines, a, b)
    IN  IF omitted = 0 THEN M = {}
        ELSE Cardinality(M) = 1 /\ \A p \in M : lines[p].n = omitted

\* C39: the preview heads the shown messages in the order of their indices;
\* wherever messages are left out, before the first shown, between two
\* shown in a row, or after the last, exactly one marker stands there and
\* counts them, and none stands elsewhere; so the shown messages and the
\* counts of the markers add up to the messages of the conversation
C39_GapsMarkedOnce ==
    rendered =>
        LET lines == renderedLines
            H == headPositions(lines)
            before(p) == { a \in H : a < p }
            prev(p) == IF before(p) = {} THEN 0
                       ELSE CHOOSE a \in before(p) : \A c \in before(p) : c <= a
            indexAt(a) == IF a = 0 THEN 0 - 1 ELSE lines[a].n
            last == prev(Len(lines) + 1)
        IN  /\ \A p \in H :
                  /\ indexAt(prev(p)) < lines[p].n
                  /\ oneMarkerFor(lines, prev(p), p, lines[p].n - indexAt(prev(p)) - 1)
            /\ oneMarkerFor(lines, last, Len(lines) + 1,
                            Len(previewed) - 1 - indexAt(last))
            /\ Cardinality(H) + SumOfCounts(SelectSeq(lines, isMarker))
                   = Len(previewed)

\* C39 witness: of eight messages the first two and the last two are shown,
\* and one marker between them counts the other four
C39_Witness ==
    /\ rendered
    /\ Len(previewed) = 8
    /\ shownIndices(renderedLines) = {0, 1, 6, 7}
    /\ SelectSeq(renderedLines, isMarker) = << previewLine("skipped", <<>>, 4) >>

\* C40: a call of View, and of renderPreview inside it, leaves the query,
\* items, filtered, the cursor, the preview offset and the fields of the
\* delete confirmation as they were, also when the preview offset lies
\* beyond the last line of the preview
C40_RenderingKeepsModel ==
    [][ view' # view =>
            UNCHANGED <<query, items, filtered, cursor, previewScroll,
                        confirmDelete, deleteIndex>> ]_vars

\* C40 witness: the preview was rendered from its last line because the
\* preview offset lies beyond it, and the offset is still there
C40_Witness ==
    /\ rendered
    /\ previewScroll >= Len(renderedLines)
    /\ view[1].preview[1].from = Len(renderedLines) - 1
    /\ Len(view[1].preview[1].window) = 1

====
